---- MODULE Spec2Model ----
(***************************************************************************)
(* Model of the research pipeline: the job ledger (api/job_store.py), the  *)
(* background runner (api/research_worker.py), the linear stage graph      *)
(* (graph/research_graph.py) and the stage functions (agents/*.py).        *)
(*                                                                         *)
(* Conventions.  A Python dict is a TLA+ record; a key that a dict does    *)
(* not have is a field the record does not have ("text" of a document,     *)
(* an argument of update_job_status that is left None).  A None / NULL     *)
(* string value is the string "None"; a None in a field that otherwise    *)
(* holds a dict is the empty sequence; a NULL final_state_json column is   *)
(* the empty sequence and a stored JSON text is a one-element sequence.    *)
(***************************************************************************)
EXTENDS Integers, Sequences, FiniteSets, TLC

\* Largest number of candidates the search collaborator returns.
MaxPapers == 1

\* The jobs that exist in a run and the threads that touch the ledger:
\* one background runner per job plus the request handler of the API.
Jobs == {"j1", "j2"}
ApiThread == "api"
Threads == Jobs \cup {ApiThread}

\* Exception classes the runner tells apart (research_worker.py:145-170).
ExcClasses == {"ValueError", "ConnectionError", "Exception"}

\* Outcome of the per-candidate download / extraction steps.
PaperOutcomes == {"ok", "download_fails"}

VARIABLES
    db,           \* committed content of table jobs: job_id -> row
    lock,         \* JobStore._lock: "free" or the thread that holds it
    call,         \* per thread: the JobStore call it is inside, or NoCall
    pc,           \* per job: position of run_research_job
    node,         \* per job: next node of the compiled graph, or "END"
    gstate,       \* per job: the graph's own channel state
    final_state,  \* per job: the runner's merged snapshot
    events,       \* per job: node names yielded by graph.stream so far
    snapshots,    \* per job: processing_stage of each merged snapshot
    writes,       \* per job: arguments of the runner's committed updates
    rowHist,      \* per job: every committed version of the job's row
    researcher,   \* one activation of researcher_node: its locals
    analyzer,     \* one activation of analyzer_node: its locals
    detector,     \* one activation of _detect_contradictions: its locals
    comparator,   \* one activation of comparator_node: its locals
    extractor,    \* one activation of _extract_metrics_by_paper: its locals
    collector,    \* one activation of _extract_key_findings: its locals
    cli,          \* the polling loop of main.py: its locals
    ui            \* the Streamlit script of app.py: st.session_state

\* The ledger, the runner and the graph; the activations of single stages
\* and of two of their procedures; the two polling clients.
jobVars == <<db, lock, call, pc, node, gstate, final_state, events, snapshots,
             writes, rowHist>>
stageVars == <<researcher, analyzer, detector, comparator>>
procVars == <<extractor, collector>>
clientVars == <<cli, ui>>

vars == <<db, lock, call, pc, node, gstate, final_state, events, snapshots,
          writes, rowHist, researcher, analyzer, detector, comparator,
          extractor, collector, cli, ui>>

\* A stage function that is not running.
Idle == [pc |-> "idle"]
NoProcs == extractor = Idle /\ collector = Idle
NoClients == cli = Idle /\ ui = Idle

----------------------------------------------------------------------------
(* Python dict helpers                                                     *)

\* {**a, **b}
Merge(a, b) ==
    [k \in (DOMAIN a) \cup (DOMAIN b) |-> IF k \in DOMAIN b THEN b[k] ELSE a[k]]

\* d.get(k, default)
Get(d, k, default) == IF k \in DOMAIN d THEN d[k] ELSE default

\* json.dumps / json.loads: the stored text wraps the value it encodes.
JsonDumps(value) == <<value>>
JsonLoads(text) == text[1]

----------------------------------------------------------------------------
(* Stage functions                                                         *)

\* What can happen to one candidate inside the try block of the loop
\* (researcher.py:71-94): the PDF is downloaded or found cached, and the
\* download, the text extraction or format_citation may raise.
CandidateOutcomes == PaperOutcomes \cup {"cached", "extract_fails", "citation_fails"}
Succeeds(outcome) == outcome \in {"ok", "cached"}

\* str(e) of the exception the candidate's step raised.
FailureText(outcome) ==
    CASE outcome = "download_fails" -> "PDF download failed"
      [] outcome = "extract_fails" ->
            "EOF marker not found while reading the cross-reference table"
      [] outcome = "citation_fails" -> "list index out of range"

\* s[:n]
Prefix(s, n) == SubSeq(s, 1, IF Len(s) < n THEN Len(s) ELSE n)

\* s.startswith(p)
StartsWith(s, p) == Len(s) >= Len(p) /\ SubSeq(s, 1, Len(p)) = p

\* One document record per candidate (researcher.py:67-131).
DocumentFor(i, outcome) ==
    IF Succeeds(outcome)
    THEN [arxiv_id |-> i, pdf_path |-> "pdf", extraction_status |-> "success",
          text |-> "text"]
    ELSE [arxiv_id |-> i, pdf_path |-> "None",
          extraction_status |-> "failed: " \o Prefix(FailureText(outcome), 50)]

ErrorFor(i, outcome) ==
    [arxiv_id |-> i, error |-> FailureText(outcome), stage |-> "pdf_extraction"]

RECURSIVE CandidateErrors(_, _)
CandidateErrors(papers, i) ==
    IF i > Len(papers) THEN <<>>
    ELSE (IF Succeeds(papers[i]) THEN <<>> ELSE <<ErrorFor(i, papers[i])>>)
         \o CandidateErrors(papers, i + 1)

\* researcher_node: papers is what the search returned (one outcome per
\* candidate), buildOk says whether build_index returns or raises.
researcher_node(state, papers, buildOk) ==
    IF Len(papers) = 0
    THEN [documents |-> <<>>,
          error_log |-> <<[error |-> "No papers found", stage |-> "arxiv_search"]>>,
          processing_stage |-> "failed"]
    ELSE LET documents == [i \in 1..Len(papers) |-> DocumentFor(i, papers[i])]
             successful_docs == SelectSeq(documents,
                                   LAMBDA d : d.extraction_status = "success")
             built == Len(successful_docs) > 0 /\ buildOk
             build_error == IF Len(successful_docs) > 0 /\ ~buildOk
                            THEN <<[error |-> "build failed",
                                    stage |-> "faiss_building"]>>
                            ELSE <<>>
         IN [documents |-> documents,
             faiss_index_path |-> IF built THEN "index.faiss" ELSE "None",
             error_log |-> CandidateErrors(papers, 1) \o build_error,
             processing_stage |-> "analyzing"]

\* The analysis of the short circuit (analyzer.py:77-84) and one that the
\* extraction procedures can produce.
EmptyAnalysis ==
    [key_findings |-> <<>>, contradictions |-> <<>>,
     complementary_findings |-> <<>>, trends |-> <<>>,
     consensus_points |-> <<>>, gaps |-> <<>>]
SomeAnalysis == [EmptyAnalysis EXCEPT !.key_findings = <<"finding">>]

\* Variant: the short circuit hands over to the comparison stage.
analyzer_nodeAdvancesToComparing(state) ==
    IF Get(state, "faiss_index_path", "None") = "None"
    THEN [analysis |-> EmptyAnalysis, processing_stage |-> "comparing"]
    ELSE [analysis |-> SomeAnalysis, processing_stage |-> "synthesizing"]

\* analyzer_node: both return statements carry the same stage label.
analyzer_node(state) ==
    IF Get(state, "faiss_index_path", "None") = "None"
    THEN [analysis |-> EmptyAnalysis, processing_stage |-> "synthesizing"]
    ELSE [analysis |-> SomeAnalysis, processing_stage |-> "synthesizing"]

\* The comparison of the short circuit (comparator.py:74-78) and the one of
\* an index in which no metric is found (comparator.py:211-212, 249-250).
EmptyComparison ==
    [metrics_table |-> <<>>, metric_names |-> <<>>,
     comparison_summary |-> "No metrics extracted - FAISS index unavailable"]
NoMetricsComparison ==
    [metrics_table |-> <<>>, metric_names |-> <<>>,
     comparison_summary |-> "No quantitative metrics were extracted from the papers."]

\* Variant: the comparator reports its missing index in error_log.
comparator_nodeLogsError(state) ==
    IF Get(state, "faiss_index_path", "None") = "None"
    THEN [comparison |-> EmptyComparison, processing_stage |-> "synthesizing",
          error_log |-> <<[error |-> "No FAISS index", stage |-> "comparison"]>>]
    ELSE [comparison |-> NoMetricsComparison, processing_stage |-> "synthesizing"]

\* comparator_node
comparator_node(state) ==
    IF Get(state, "faiss_index_path", "None") = "None"
    THEN [comparison |-> EmptyComparison, processing_stage |-> "synthesizing"]
    ELSE [comparison |-> NoMetricsComparison, processing_stage |-> "synthesizing"]

\* synthesizer_node: its source is not part of the repository snapshot.  It
\* returns the report, the insights and a stage label: "complete", the next
\* label of the fixed order, or "failed" for a synthesizer that reports its
\* own failure through the label (the case the runner's else branch at
\* research_worker.py:134-143 is written for).
SynthesizerStages == {"complete", "failed"}
synthesizer_node(state, stage) ==
    [final_report |-> "report", insights_json |-> "insights",
     processing_stage |-> stage]

\* Can the stage raise on this state?  The analyzer and the comparator return
\* before touching the index when there is none; with an index, load_index
\* and the index queries are outside any try block.
MayRaise(n, state) ==
    CASE n = "researcher" -> TRUE
      [] n = "analyzer" -> Get(state, "faiss_index_path", "None") # "None"
      [] n = "comparator" -> Get(state, "faiss_index_path", "None") # "None"
      [] n = "synthesizer" -> TRUE

----------------------------------------------------------------------------
(* The compiled graph                                                      *)

EntryPoint == "researcher"

\* Variant: the analyzer is wired straight to the synthesizer.
EdgeSkipsComparator(n) ==
    CASE n = "researcher" -> "analyzer"
      [] n = "analyzer" -> "synthesizer"
      [] n = "comparator" -> "synthesizer"
      [] n = "synthesizer" -> "END"

\* workflow.add_edge(a, b)
Edge(n) ==
    CASE n = "researcher" -> "analyzer"
      [] n = "analyzer" -> "comparator"
      [] n = "comparator" -> "synthesizer"
      [] n = "synthesizer" -> "END"

\* Channels declared Annotated[..., add] concatenate, the others keep the
\* last value written.
AddChannels == {"documents", "error_log"}
ApplyUpdate(gs, delta) ==
    [k \in (DOMAIN gs) \cup (DOMAIN delta) |->
        IF k \notin DOMAIN delta THEN gs[k]
        ELSE IF k \in AddChannels /\ k \in DOMAIN gs THEN gs[k] \o delta[k]
        ELSE delta[k]]

\* The deltas a node can return on a state, over all inputs of the node.
Deltas(n, state) ==
    CASE n = "researcher" ->
            {researcher_node(state, papers, buildOk) :
                papers \in UNION {[1..k -> PaperOutcomes] : k \in 0..MaxPapers},
                buildOk \in BOOLEAN}
      [] n = "analyzer" -> {analyzer_node(state)}
      [] n = "comparator" -> {comparator_node(state)}
      [] n = "synthesizer" ->
            {synthesizer_node(state, stage) : stage \in SynthesizerStages}

----------------------------------------------------------------------------
(* The job ledger                                                          *)
(* Columns topic and max_papers are left out: no statement reads them.     *)
(* created_at is a logical time, the rank of the job among the jobs        *)
(* created so far; updated_at starts equal to it and every update moves it *)
(* to a later time.                                                        *)

NoCall == [op |-> "none"]
NoArgs == [x \in {} |-> 0]
NoRows == [j \in {} |-> 0]

WriteOps == {"create_job", "update_job_status", "delete_job", "cleanup_old_jobs"}
ReadOps == {"get_job", "get_all_jobs", "get_active_jobs_count", "get_job_summaries"}

\* INSERT of create_job: status and stage "queued", progress 0.
NewRow(now) ==
    [status |-> "queued", processing_stage |-> "queued",
     progress_percentage |-> 0, current_message |-> "None",
     error |-> "None", created_at |-> now, updated_at |-> now,
     final_state_json |-> <<>>]

\* Variant: an error is stored without forcing the status.
UpdatesKeepStatus(args) ==
    (IF "status" \in DOMAIN args THEN <<<<"status", args.status>>>> ELSE <<>>)
    \o (IF "processing_stage" \in DOMAIN args
        THEN <<<<"processing_stage", args.processing_stage>>>> ELSE <<>>)
    \o (IF "progress_percentage" \in DOMAIN args
        THEN <<<<"progress_percentage", args.progress_percentage>>>> ELSE <<>>)
    \o (IF "current_message" \in DOMAIN args
        THEN <<<<"current_message", args.current_message>>>> ELSE <<>>)
    \o (IF "error" \in DOMAIN args THEN <<<<"error", args.error>>>> ELSE <<>>)
    \o (IF "final_state" \in DOMAIN args
        THEN <<<<"final_state_json", JsonDumps(args.final_state)>>>> ELSE <<>>)

\* Variant: the forced status is appended ahead of the caller's status.
UpdatesErrorFirst(args) ==
    (IF "error" \in DOMAIN args
     THEN <<<<"error", args.error>>, <<"status", "failed">>>> ELSE <<>>)
    \o (IF "status" \in DOMAIN args THEN <<<<"status", args.status>>>> ELSE <<>>)
    \o (IF "processing_stage" \in DOMAIN args
        THEN <<<<"processing_stage", args.processing_stage>>>> ELSE <<>>)
    \o (IF "progress_percentage" \in DOMAIN args
        THEN <<<<"progress_percentage", args.progress_percentage>>>> ELSE <<>>)
    \o (IF "current_message" \in DOMAIN args
        THEN <<<<"current_message", args.current_message>>>> ELSE <<>>)
    \o (IF "final_state" \in DOMAIN args
        THEN <<<<"final_state_json", JsonDumps(args.final_state)>>>> ELSE <<>>)

\* The SET list update_job_status builds, in the order it appends.
Updates(args) ==
    (IF "status" \in DOMAIN args THEN <<<<"status", args.status>>>> ELSE <<>>)
    \o (IF "processing_stage" \in DOMAIN args
        THEN <<<<"processing_stage", args.processing_stage>>>> ELSE <<>>)
    \o (IF "progress_percentage" \in DOMAIN args
        THEN <<<<"progress_percentage", args.progress_percentage>>>> ELSE <<>>)
    \o (IF "current_message" \in DOMAIN args
        THEN <<<<"current_message", args.current_message>>>> ELSE <<>>)
    \o (IF "error" \in DOMAIN args
        THEN <<<<"error", args.error>>, <<"status", "failed">>>> ELSE <<>>)
    \o (IF "final_state" \in DOMAIN args
        THEN <<<<"final_state_json", JsonDumps(args.final_state)>>>> ELSE <<>>)

\* UPDATE jobs SET c1 = v1, ... : of two assignments to one column the
\* rightmost one is the one applied.
RECURSIVE SetColumns(_, _)
SetColumns(row, updates) ==
    IF updates = <<>> THEN row
    ELSE SetColumns([row EXCEPT ![updates[1][1]] = updates[1][2]], Tail(updates))

\* Variant: the update sets the columns named by the arguments only.
UpdatedRowKeepsTime(row, args) == SetColumns(row, Updates(args))

\* The row after update_job_status: updates.append("updated_at = ?") with
\* datetime.now(), a time later than the row's last.
UpdatedRow(row, args) ==
    SetColumns(row, Updates(args) \o <<<<"updated_at", row.updated_at + 1>>>>)

\* Variant: the statement has no WHERE clause.
WhereAll(table, job_id) == DOMAIN table

\* ... WHERE job_id = ?
Where(table, job_id) == {j \in DOMAIN table : j = job_id}

\* ... WHERE created_at < ?
OlderThan(table, cutoff) == {j \in DOMAIN table : table[j].created_at < cutoff}

\* Variant: an update of a missing row inserts the row.
StatementUpserts(table, c) ==
    CASE c.op = "create_job" ->
            [set |-> [j \in {c.job} |-> NewRow(c.args.now)], del |-> {}]
      [] c.op = "update_job_status" ->
            [set |-> [j \in {c.job} |->
                         UpdatedRow(IF j \in DOMAIN table THEN table[j] ELSE NewRow(1),
                                    c.args)],
             del |-> {}]
      [] c.op = "delete_job" -> [set |-> NoRows, del |-> Where(table, c.job)]
      [] c.op = "cleanup_old_jobs" ->
            [set |-> NoRows, del |-> OlderThan(table, c.args.cutoff)]
      [] OTHER -> [set |-> NoRows, del |-> {}]

\* The statement of a writing operation, as the transaction it leaves in the
\* connection: the rows it sets and the job ids it deletes.
Statement(table, c) ==
    CASE c.op = "create_job" ->
            [set |-> [j \in {c.job} |-> NewRow(c.args.now)], del |-> {}]
      [] c.op = "update_job_status" ->
            [set |-> [j \in Where(table, c.job) |->
                         UpdatedRow(table[j], c.args)],
             del |-> {}]
      [] c.op = "delete_job" -> [set |-> NoRows, del |-> Where(table, c.job)]
      [] c.op = "cleanup_old_jobs" ->
            [set |-> NoRows, del |-> OlderThan(table, c.args.cutoff)]
      [] OTHER -> [set |-> NoRows, del |-> {}]

\* get_job's conversion of the fetched row; final_state is <<>> for None.
JobDict(row) ==
    [status |-> row.status, processing_stage |-> row.processing_stage,
     progress_percentage |-> row.progress_percentage,
     current_message |-> row.current_message, error |-> row.error,
     created_at |-> row.created_at,
     final_state |-> IF row.final_state_json # <<>>
                     THEN <<JsonLoads(row.final_state_json)>> ELSE <<>>]

\* ORDER BY created_at DESC
RECURSIVE NewestFirst(_, _)
NewestFirst(table, ids) ==
    IF ids = {} THEN <<>>
    ELSE LET j == CHOOSE x \in ids :
                    \A y \in ids : table[y].created_at <= table[x].created_at
         IN <<j>> \o NewestFirst(table, ids \ {j})

\* One entry of get_job_summaries.
Summary(row) ==
    LET counted == row.status = "complete" /\ row.final_state_json # <<>>
        documents == IF counted
                     THEN Get(JsonLoads(row.final_state_json), "documents", <<>>)
                     ELSE <<>>
        ok(d) == Get(d, "extraction_status", "None") = "success"
    IN [status |-> row.status, processing_stage |-> row.processing_stage,
        progress_percentage |-> row.progress_percentage, error |-> row.error,
        created_at |-> row.created_at,
        papers_analyzed |-> IF counted THEN Len(SelectSeq(documents, ok)) ELSE -1,
        papers_failed |-> IF counted
                          THEN Len(documents) - Len(SelectSeq(documents, ok))
                          ELSE -1]

\* What a reading operation returns, wrapped in a sequence (<<>> is None).
Result(table, c) ==
    CASE c.op = "get_job" ->
            IF c.job \in DOMAIN table THEN <<JobDict(table[c.job])>> ELSE <<>>
      [] c.op = "get_all_jobs" ->
            LET ids == NewestFirst(table, DOMAIN table)
            IN <<[i \in 1..Len(ids) |->
                    [JobDict(table[ids[i]]) EXCEPT !.final_state = <<>>]]>>
      [] c.op = "get_active_jobs_count" ->
            <<Cardinality({j \in DOMAIN table :
                             table[j].status \notin {"complete", "failed"}})>>
      [] c.op = "get_job_summaries" ->
            LET ids == NewestFirst(table, DOMAIN table)
            IN <<[i \in 1..Len(ids) |-> Summary(table[ids[i]])]>>
      [] OTHER -> <<>>

\* A thread enters a JobStore method.
Enter(op, job, args) ==
    [op |-> op, job |-> job, args |-> args, phase |-> "wait",
     txn |-> [set |-> NoRows, del |-> {}], result |-> <<>>]

\* Variant: the connection is opened without waiting for the lock.
AcquireUnguarded(t) ==
    /\ call[t].op # "none"
    /\ call[t].phase = "wait"
    /\ lock' = t
    /\ call' = [call EXCEPT ![t].phase = "connected"]
    /\ UNCHANGED <<db, pc, node, gstate, final_state, events, snapshots,
                   writes, rowHist>>
    /\ UNCHANGED <<stageVars, procVars, clientVars>>

\* with self._lock: conn = sqlite3.connect(...)
Acquire(t) ==
    /\ call[t].op # "none"
    /\ call[t].phase = "wait"
    /\ lock = "free"
    /\ lock' = t
    /\ call' = [call EXCEPT ![t].phase = "connected"]
    /\ UNCHANGED <<db, pc, node, gstate, final_state, events, snapshots,
                   writes, rowHist>>
    /\ UNCHANGED <<stageVars, procVars, clientVars>>

\* cursor.execute(...): a write stays in the connection's transaction, a
\* SELECT fetches from the committed table.
Execute(t) ==
    /\ call[t].op # "none"
    /\ call[t].phase = "connected"
    /\ call' = [call EXCEPT ![t].phase = "executed",
                            ![t].txn = Statement(db, call[t]),
                            ![t].result = Result(db, call[t])]
    /\ UNCHANGED <<db, lock, pc, node, gstate, final_state, events, snapshots,
                   writes, rowHist>>
    /\ UNCHANGED <<stageVars, procVars, clientVars>>

\* conn.commit()
Commit(t) ==
    /\ call[t].op \in WriteOps
    /\ call[t].phase = "executed"
    /\ LET txn == call[t].txn
           c == call[t]
       IN /\ db' = [j \in ((DOMAIN db) \cup (DOMAIN txn.set)) \ txn.del |->
                        IF j \in DOMAIN txn.set THEN txn.set[j] ELSE db[j]]
          /\ rowHist' = [j \in Jobs |->
                            IF j \in DOMAIN txn.set
                            THEN rowHist[j] \cup {txn.set[j]} ELSE rowHist[j]]
          /\ writes' = IF c.op = "update_job_status" /\ c.job \in DOMAIN txn.set
                       THEN [writes EXCEPT ![c.job] = Append(@, c.args)]
                       ELSE writes
    /\ call' = [call EXCEPT ![t].phase = "committed"]
    /\ UNCHANGED <<lock, pc, node, gstate, final_state, events, snapshots>>
    /\ UNCHANGED <<stageVars, procVars, clientVars>>

\* conn.close(), the end of the with block, return.  The handler that called
\* create_job then schedules the job's runner.
Release(t) ==
    /\ call[t].op # "none"
    /\ \/ call[t].op \in ReadOps /\ call[t].phase = "executed"
       \/ call[t].op \in WriteOps /\ call[t].phase = "committed"
    /\ lock' = "free"
    /\ call' = [call EXCEPT ![t] = NoCall]
    /\ pc' = IF call[t].op = "create_job"
             THEN [pc EXCEPT ![call[t].job] = "init"] ELSE pc
    /\ UNCHANGED <<db, node, gstate, final_state, events, snapshots, writes,
                   rowHist>>
    /\ UNCHANGED <<stageVars, procVars, clientVars>>

----------------------------------------------------------------------------
(* The API's request handlers                                              *)

\* datetime.now() of create_job, as a logical time.
Now == Cardinality({j \in Jobs : pc[j] # "idle"}) + 1

\* POST /research: create the ledger row of a new job.
SubmitJob(j) ==
    /\ call[ApiThread] = NoCall
    /\ pc[j] = "idle"
    /\ j \notin DOMAIN db
    /\ call' = [call EXCEPT ![ApiThread] =
                   Enter("create_job", j, [now |-> Now])]
    /\ UNCHANGED <<db, lock, pc, node, gstate, final_state, events, snapshots,
                   writes, rowHist>>
    /\ UNCHANGED <<stageVars, procVars, clientVars>>

\* GET /status/{job_id}: read the row of any job id.
PollJob(j) ==
    /\ call[ApiThread] = NoCall
    /\ call' = [call EXCEPT ![ApiThread] = Enter("get_job", j, NoArgs)]
    /\ UNCHANGED <<db, lock, pc, node, gstate, final_state, events, snapshots,
                   writes, rowHist>>
    /\ UNCHANGED <<stageVars, procVars, clientVars>>

----------------------------------------------------------------------------
(* run_research_job                                                        *)

InitialState ==
    [documents |-> <<>>, faiss_index_path |-> "None", error_log |-> <<>>,
     analysis |-> <<>>, comparison |-> <<>>, final_report |-> "None",
     insights_json |-> "None", processing_stage |-> "researching"]

\* Variant: the synthesizing label is given a progress below the analyzing one.
ProgressForLowSynthesizing(stage) ==
    CASE stage = "analyzing" -> 40
      [] stage = "comparing" -> 60
      [] stage = "synthesizing" -> 30
      [] OTHER -> -1

\* Variant: the loop also mirrors the "failed" label into the ledger.
ProgressForMirrorsFailed(stage) ==
    CASE stage = "analyzing" -> 40
      [] stage = "comparing" -> 60
      [] stage = "synthesizing" -> 80
      [] stage = "failed" -> 0
      [] OTHER -> -1

\* Stage labels the loop mirrors into the ledger, with their progress.
ProgressFor(stage) ==
    CASE stage = "analyzing" -> 40
      [] stage = "comparing" -> 60
      [] stage = "synthesizing" -> 80
      [] OTHER -> -1

\* Variant: the progress write leaves the processing_stage column alone.
StageArgsStatusOnly(stage) ==
    [status |-> stage,
     progress_percentage |-> ProgressFor(stage), current_message |-> stage]

\* The arguments of the progress write for a mirrored label.
StageArgs(stage) ==
    [status |-> stage, processing_stage |-> stage,
     progress_percentage |-> ProgressFor(stage), current_message |-> stage]

\* The text of each except clause.
ErrorText(cls) ==
    CASE cls = "ValueError" -> "Validation error: e"
      [] cls = "ConnectionError" -> "Connection failed: e"
      [] cls = "Exception" -> "Unexpected error: e"

\* Variant: the except clauses reset the progress and store no error.
FailureArgsProgressOnly(text) == [progress_percentage |-> 0]

\* update_job_status(job_id=job_id, error=..., progress_percentage=0)
FailureArgs(text) == [error |-> text, progress_percentage |-> 0]

\* Variant: the document is stored as it is.
CleanDocKeepsText(doc) == doc

\* doc without its "text" key
CleanDoc(doc) == [k \in (DOMAIN doc) \ {"text"} |-> doc[k]]

CleanState(state) ==
    IF "documents" \in DOMAIN state
    THEN [state EXCEPT !.documents =
             [i \in 1..Len(state.documents) |-> CleanDoc(state.documents[i])]]
    ELSE state

\* Lines 39-69: the initial state, the compiled graph, the first progress
\* write.
StartRun(j) ==
    /\ pc[j] = "init"
    /\ call[j] = NoCall
    /\ node' = [node EXCEPT ![j] = EntryPoint]
    /\ gstate' = [gstate EXCEPT ![j] = InitialState]
    /\ final_state' = [final_state EXCEPT ![j] = InitialState]
    /\ snapshots' = [snapshots EXCEPT ![j] = <<InitialState.processing_stage>>]
    /\ call' = [call EXCEPT ![j] =
                   Enter("update_job_status", j,
                         [status |-> "researching",
                          processing_stage |-> "researching",
                          progress_percentage |-> 10,
                          current_message |-> "researching"])]
    /\ pc' = [pc EXCEPT ![j] = "stream"]
    /\ UNCHANGED <<db, lock, events, writes, rowHist>>
    /\ UNCHANGED <<stageVars, procVars, clientVars>>

\* One iteration of "for event in graph.stream(...)": the graph runs its
\* next node, yields the node's delta, and the loop body merges it and
\* mirrors the stage label into the ledger.
StreamYield(j) ==
    /\ pc[j] = "stream"
    /\ call[j] = NoCall
    /\ node[j] # "END"
    /\ \E state_update \in Deltas(node[j], gstate[j]) :
          LET current_stage == Get(state_update, "processing_stage", "unknown")
          IN /\ gstate' = [gstate EXCEPT ![j] = ApplyUpdate(@, state_update)]
             /\ final_state' = [final_state EXCEPT ![j] = Merge(@, state_update)]
             /\ snapshots' = [snapshots EXCEPT ![j] =
                                 Append(@, Merge(final_state[j], state_update).processing_stage)]
             /\ call' = IF ProgressFor(current_stage) # -1
                        THEN [call EXCEPT ![j] =
                                Enter("update_job_status", j, StageArgs(current_stage))]
                        ELSE call
    /\ events' = [events EXCEPT ![j] = Append(@, node[j])]
    /\ node' = [node EXCEPT ![j] = Edge(node[j])]
    /\ UNCHANGED <<db, lock, pc, writes, rowHist>>
    /\ UNCHANGED <<stageVars, procVars, clientVars>>

\* The node raises: the exception leaves graph.stream and reaches one of the
\* three except clauses, which makes the failure write.
StreamRaise(j) ==
    /\ pc[j] = "stream"
    /\ call[j] = NoCall
    /\ node[j] # "END"
    /\ MayRaise(node[j], gstate[j])
    /\ \E cls \in ExcClasses :
          call' = [call EXCEPT ![j] =
                      Enter("update_job_status", j, FailureArgs(ErrorText(cls)))]
    /\ pc' = [pc EXCEPT ![j] = "raised"]
    /\ UNCHANGED <<db, lock, node, gstate, final_state, events, snapshots,
                   writes, rowHist>>
    /\ UNCHANGED <<stageVars, procVars, clientVars>>

\* Lines 111-143, after the stream is exhausted.
Validate(j) ==
    /\ pc[j] = "stream"
    /\ call[j] = NoCall
    /\ node[j] = "END"
    /\ IF final_state[j].processing_stage = "complete"
       THEN /\ final_state' = [final_state EXCEPT ![j] = CleanState(@)]
            /\ call' = [call EXCEPT ![j] =
                          Enter("update_job_status", j,
                                [status |-> "complete",
                                 processing_stage |-> "complete",
                                 progress_percentage |-> 100,
                                 current_message |-> "complete",
                                 final_state |-> CleanState(final_state[j])])]
            /\ pc' = [pc EXCEPT ![j] = "completed"]
       ELSE /\ final_state' = final_state
            /\ call' = [call EXCEPT ![j] =
                          Enter("update_job_status", j,
                                FailureArgs("Graph execution did not reach 'complete' stage"))]
            /\ pc' = [pc EXCEPT ![j] = "incomplete"]
    /\ UNCHANGED <<db, lock, node, gstate, events, snapshots, writes, rowHist>>
    /\ UNCHANGED <<stageVars, procVars, clientVars>>

----------------------------------------------------------------------------
(* Clients of the ledger                                                   *)
(* Any thread may call any JobStore method with any arguments.  The        *)
(* argument values are those the runner passes, plus an explicit status    *)
(* together with an error.                                                 *)

\* Number of row updates, committed or under way, beyond which no client
\* starts another one.
MaxWrites == 2

SampleState ==
    [documents |-> <<[arxiv_id |-> 1, extraction_status |-> "success"],
                     [arxiv_id |-> 2, extraction_status |-> "failed: e"]>>,
     processing_stage |-> "complete"]

UpdateArgSets ==
    {StageArgs("analyzing"),
     FailureArgs("boom"),
     [status |-> "complete", error |-> "late"],
     [status |-> "complete", processing_stage |-> "complete",
      progress_percentage |-> 100, final_state |-> SampleState]}

RECURSIVE TotalWrites(_)
TotalWrites(jobs) ==
    IF jobs = {} THEN 0
    ELSE LET j == CHOOSE x \in jobs : TRUE
         IN Len(writes[j]) + TotalWrites(jobs \ {j})

UpdatesUnderWay ==
    Cardinality({t \in Threads : call[t].op = "update_job_status"})

StoreUpdate(t) ==
    /\ t \in Jobs
    /\ call[t] = NoCall
    /\ TotalWrites(Jobs) + UpdatesUnderWay < MaxWrites
    /\ \E j \in Jobs, args \in UpdateArgSets :
          /\ call' = [call EXCEPT ![t] = Enter("update_job_status", j, args)]
    /\ UNCHANGED <<db, lock, pc, node, gstate, final_state, events, snapshots,
                   writes, rowHist>>
    /\ UNCHANGED <<stageVars, procVars, clientVars>>

StoreDelete(t) ==
    /\ t = ApiThread
    /\ call[t] = NoCall
    /\ \/ \E j \in Jobs :
             call' = [call EXCEPT ![t] = Enter("delete_job", j, NoArgs)]
       \/ \E cutoff \in 2..(Cardinality(Jobs) + 1) :
             call' = [call EXCEPT ![t] =
                         Enter("cleanup_old_jobs", "", [cutoff |-> cutoff])]
    /\ UNCHANGED <<db, lock, pc, node, gstate, final_state, events, snapshots,
                   writes, rowHist>>
    /\ UNCHANGED <<stageVars, procVars, clientVars>>

StoreRead(t) ==
    /\ t = ApiThread
    /\ call[t] = NoCall
    /\ \/ \E j \in Jobs :
             call' = [call EXCEPT ![t] = Enter("get_job", j, NoArgs)]
       \/ \E op \in ReadOps \ {"get_job"} :
             call' = [call EXCEPT ![t] = Enter(op, "", NoArgs)]
    /\ UNCHANGED <<db, lock, pc, node, gstate, final_state, events, snapshots,
                   writes, rowHist>>
    /\ UNCHANGED <<stageVars, procVars, clientVars>>

----------------------------------------------------------------------------
(* researcher_node, statement by statement                                 *)
(* The activation keeps the locals papers, documents, error_log and        *)
(* faiss_index_path, the calls made on the collaborators so far (ops),    *)
(* the arguments and the content of the index build, and the returned      *)
(* delta (ret, empty until the return).  Candidate i has arxiv_id i.       *)

\* Largest number of candidates in one activation.
MaxCandidates == 3

\* The collaborator calls the try block makes for one candidate, up to and
\* including the one that raises (researcher.py:71-94).
StepsFor(i, outcome) ==
    LET step(op) == [op |-> op, arxiv_id |-> i]
    IN CASE outcome = "ok" ->
               <<step("download_pdf"), step("extract_text"), step("format_citation")>>
         [] outcome = "cached" -> <<step("extract_text"), step("format_citation")>>
         [] outcome = "download_fails" -> <<step("download_pdf")>>
         [] outcome = "extract_fails" -> <<step("download_pdf"), step("extract_text")>>
         [] outcome = "citation_fails" ->
               <<step("download_pdf"), step("extract_text"), step("format_citation")>>

\* Variant: every document is handed to the index build.
successful_docsKeepsAll(documents) == documents

\* successful_docs = [d for d in documents if d["extraction_status"] == "success"]
successful_docs(documents) ==
    SelectSeq(documents, LAMBDA d : d.extraction_status = "success")

\* FAISSVectorStore.build_index: the arxiv_ids whose text is chunked.  A
\* record marked "success" always carries a text of at least 100
\* characters (pdf_extractor.py:45-46), so the length test skips none.
build_index(documents) ==
    {documents[k].arxiv_id : k \in {n \in 1..Len(documents) :
        /\ Get(documents[n], "extraction_status", "None") = "success"
        /\ "text" \in DOMAIN documents[n]}}

StartResearcher ==
    [pc |-> "search", papers |-> <<>>, idx |-> 0, documents |-> <<>>,
     error_log |-> <<>>, ops |-> <<>>, faiss_index_path |-> "None", build |-> "none",
     indexed |-> <<>>, chunks |-> {}, ret |-> <<>>]

\* Variant: an empty search result falls through to the loop.
ResearcherSearchIgnoresEmpty ==
    /\ researcher.pc = "search"
    /\ \E n \in 0..MaxCandidates : \E papers \in [1..n -> CandidateOutcomes] :
          researcher' = [researcher EXCEPT
                            !.ops = <<[op |-> "search", arxiv_id |-> 0]>>,
                            !.papers = papers, !.pc = "candidates"]
    /\ UNCHANGED <<jobVars, analyzer, detector, comparator, procVars, clientVars>>

\* papers = arxiv_tool.search(...); if not papers: return {...}
ResearcherSearch ==
    /\ researcher.pc = "search"
    /\ \E n \in 0..MaxCandidates : \E papers \in [1..n -> CandidateOutcomes] :
          researcher' =
             IF Len(papers) = 0
             THEN [researcher EXCEPT
                      !.ops = <<[op |-> "search", arxiv_id |-> 0]>>,
                      !.pc = "done",
                      !.ret = <<[documents |-> <<>>,
                                 error_log |-> <<[error |-> "No papers found",
                                                  stage |-> "arxiv_search"]>>,
                                 processing_stage |-> "failed"]>>]
             ELSE [researcher EXCEPT
                      !.ops = <<[op |-> "search", arxiv_id |-> 0]>>,
                      !.papers = papers, !.pc = "candidates"]
    /\ UNCHANGED <<jobVars, analyzer, detector, comparator, procVars, clientVars>>

\* Variant: a candidate that fails is logged but gets no document record.
ResearcherCandidateDropsFailed ==
    /\ researcher.pc = "candidates"
    /\ researcher.idx < Len(researcher.papers)
    /\ LET i == researcher.idx + 1
           outcome == researcher.papers[i]
       IN researcher' =
             IF Succeeds(outcome)
             THEN [researcher EXCEPT
                      !.idx = i,
                      !.ops = @ \o StepsFor(i, outcome),
                      !.documents = Append(@, DocumentFor(i, outcome))]
             ELSE [researcher EXCEPT
                      !.idx = i,
                      !.ops = @ \o StepsFor(i, outcome),
                      !.error_log = Append(@, ErrorFor(i, outcome))]
    /\ UNCHANGED <<jobVars, analyzer, detector, comparator, procVars, clientVars>>

\* One iteration of "for idx, paper_meta in enumerate(papers, 1)".
ResearcherCandidate ==
    /\ researcher.pc = "candidates"
    /\ researcher.idx < Len(researcher.papers)
    /\ LET i == researcher.idx + 1
           outcome == researcher.papers[i]
       IN researcher' =
             IF Succeeds(outcome)
             THEN [researcher EXCEPT
                      !.idx = i,
                      !.ops = @ \o StepsFor(i, outcome),
                      !.documents = Append(@, DocumentFor(i, outcome))]
             ELSE [researcher EXCEPT
                      !.idx = i,
                      !.ops = @ \o StepsFor(i, outcome),
                      !.error_log = Append(@, ErrorFor(i, outcome)),
                      !.documents = Append(@, DocumentFor(i, outcome))]
    /\ UNCHANGED <<jobVars, analyzer, detector, comparator, procVars, clientVars>>

\* Variant: a failed index build is reported through the stage label.
ResearcherReturnFailsWithoutIndex ==
    /\ researcher.pc = "return"
    /\ researcher' = [researcher EXCEPT
          !.pc = "done",
          !.ret = <<[documents |-> researcher.documents,
                     faiss_index_path |-> researcher.faiss_index_path,
                     error_log |-> researcher.error_log,
                     processing_stage |->
                        IF researcher.faiss_index_path = "None"
                        THEN "failed" ELSE "analyzing"]>>]
    /\ UNCHANGED <<jobVars, analyzer, detector, comparator, procVars, clientVars>>

\* The end of the loop: build the index from the successful documents
\* (researcher.py:135-152).  build_index returns or raises.
ResearcherBuild ==
    /\ researcher.pc = "candidates"
    /\ researcher.idx = Len(researcher.papers)
    /\ LET docs == successful_docs(researcher.documents)
       IN IF Len(docs) = 0
          THEN researcher' = [researcher EXCEPT !.pc = "return"]
          ELSE \E returns \in BOOLEAN :
                  researcher' =
                     IF returns
                     THEN [researcher EXCEPT
                              !.pc = "return",
                              !.ops = Append(@, [op |-> "build_index", arxiv_id |-> 0]),
                              !.indexed = docs,
                              !.build = "built",
                              !.chunks = build_index(docs),
                              !.faiss_index_path = "index.faiss"]
                     ELSE [researcher EXCEPT
                              !.pc = "return",
                              !.ops = Append(@, [op |-> "build_index", arxiv_id |-> 0]),
                              !.indexed = docs,
                              !.build = "raised",
                              !.error_log = Append(@, [error |-> "build failed",
                                                       stage |-> "faiss_building"])]
    /\ UNCHANGED <<jobVars, analyzer, detector, comparator, procVars, clientVars>>

\* return {"documents": ..., "faiss_index_path": ..., "error_log": ...,
\*         "processing_stage": "analyzing"}
ResearcherReturn ==
    /\ researcher.pc = "return"
    /\ researcher' = [researcher EXCEPT
          !.pc = "done",
          !.ret = <<[documents |-> researcher.documents,
                     faiss_index_path |-> researcher.faiss_index_path,
                     error_log |-> researcher.error_log,
                     processing_stage |-> "analyzing"]>>]
    /\ UNCHANGED <<jobVars, analyzer, detector, comparator, procVars, clientVars>>

\* No job has been submitted.
NoJobs ==
    /\ db = NoRows
    /\ lock = "free"
    /\ call = [t \in Threads |-> NoCall]
    /\ pc = [j \in Jobs |-> "idle"]
    /\ node = [j \in Jobs |-> EntryPoint]
    /\ gstate = [j \in Jobs |-> InitialState]
    /\ final_state = [j \in Jobs |-> InitialState]
    /\ events = [j \in Jobs |-> <<>>]
    /\ snapshots = [j \in Jobs |-> <<>>]
    /\ writes = [j \in Jobs |-> <<>>]
    /\ rowHist = [j \in Jobs |-> {}]

InitResearcher ==
    /\ NoJobs
    /\ NoProcs
    /\ NoClients
    /\ researcher = StartResearcher
    /\ analyzer = Idle
    /\ detector = Idle
    /\ comparator = Idle

NextResearcher ==
    \/ ResearcherSearch
    \/ ResearcherCandidate
    \/ ResearcherBuild
    \/ ResearcherReturn

SpecResearcher == InitResearcher /\ [][NextResearcher]_vars

----------------------------------------------------------------------------
(* _detect_contradictions, statement by statement                          *)
(* A chunk is known by its position in potential_conflicts and carries the *)
(* arxiv_id of its document; a document's citation is known by the same    *)
(* arxiv_id.  An LLM response is the set of "CATEGORY: X" markers its text *)
(* contains.  compared lists the pairs of the llm.invoke calls made so     *)
(* far, response is what the last of them returned.                        *)

\* Largest number of chunks the three index queries return together.
MaxChunks == 4

\* The documents the chunks can come from.
MaxSources == 4
Sources == 1..MaxSources

\* if len(seen_pairs) >= 5: break
PairLimit == 5

Responses ==
    {{"CONTRADICTION"}, {"COMPLEMENTARY"}, {"UNRELATED"}, {"INSUFFICIENT"},
     {"CONTRADICTION", "COMPLEMENTARY"}}

\* Variant: the key keeps the order in which the two chunks were met.
pair_keyUnsorted(a, b) == <<a, b>>

\* tuple(sorted([meta1["arxiv_id"], meta2["arxiv_id"]]))
pair_key(a, b) == IF a <= b THEN <<a, b>> ELSE <<b, a>>

\* Variant: the cap is tested before the pair is recorded.
cap_reachedBeforeAdd(seen_pairs, key) == Cardinality(seen_pairs) >= PairLimit

\* seen_pairs.add(pair_key); if len(seen_pairs) >= 5: break
cap_reached(seen_pairs, key) == Cardinality(seen_pairs \cup {key}) >= PairLimit

StartDetector ==
    [pc |-> "query", potential_conflicts |-> <<>>, i |-> 1, j |-> 2,
     seen_pairs |-> {}, contradictions |-> <<>>,
     complementary_findings |-> <<>>, compared |-> <<>>, response |-> {}]

\* The three similarity_search calls (analyzer.py:292-295); they are not
\* inside a try block.
DetectorQuery ==
    /\ detector.pc = "query"
    /\ \/ detector' = [detector EXCEPT !.pc = "raised"]
       \/ \E n \in 0..MaxChunks : \E chunks \in [1..n -> Sources] :
             detector' = [detector EXCEPT !.pc = "pairs",
                                          !.potential_conflicts = chunks]
    /\ UNCHANGED <<jobVars, researcher, analyzer, comparator, procVars, clientVars>>

\* One pass of the inner loop body, for the chunks at positions i < j.
DetectorPair ==
    /\ detector.pc = "pairs"
    /\ detector.j <= Len(detector.potential_conflicts)
    /\ LET i == detector.i
           j == detector.j
           meta1 == detector.potential_conflicts[i]
           meta2 == detector.potential_conflicts[j]
           key == pair_key(meta1, meta2)
           continue == IF j < Len(detector.potential_conflicts)
                       THEN [detector EXCEPT !.j = j + 1]
                       ELSE [detector EXCEPT !.i = i + 1, !.j = i + 2]
           record == [finding_1 |-> i, finding_2 |-> j,
                      citation_1 |-> meta1, citation_2 |-> meta2]
       IN IF meta1 = meta2 \/ key \in detector.seen_pairs
          THEN detector' = continue
          ELSE IF cap_reached(detector.seen_pairs, key)
          THEN detector' = [detector EXCEPT !.seen_pairs = @ \cup {key},
                                            !.i = i + 1, !.j = i + 2]
          ELSE \E response \in Responses \cup {{"raise"}} :
                  detector' =
                     [continue EXCEPT
                        !.seen_pairs = @ \cup {key},
                        !.compared = Append(@, [first |-> meta1, second |-> meta2]),
                        !.response = response,
                        !.contradictions =
                           IF "CONTRADICTION" \in response
                           THEN Append(@, record) ELSE @,
                        !.complementary_findings =
                           IF "CONTRADICTION" \notin response
                              /\ "COMPLEMENTARY" \in response
                           THEN Append(@, record) ELSE @]
    /\ UNCHANGED <<jobVars, researcher, analyzer, comparator, procVars, clientVars>>

\* return contradictions, complementary_findings
DetectorReturn ==
    /\ detector.pc = "pairs"
    /\ detector.j > Len(detector.potential_conflicts)
    /\ detector' = [detector EXCEPT !.pc = "done"]
    /\ UNCHANGED <<jobVars, researcher, analyzer, comparator, procVars, clientVars>>

----------------------------------------------------------------------------
(* analyzer_node, statement by statement                                   *)
(* calls is the set of collaborator calls made so far and faults the set   *)
(* of those that raised, each named with the function that made it.        *)

\* The extraction procedures in the order analyzer_node calls them, and the
\* collections of the analysis each one fills.
Procedures ==
    <<"_extract_key_findings", "_detect_contradictions", "_identify_trends",
      "_find_consensus", "_detect_gaps">>

ResultFields(p) ==
    CASE p = "_extract_key_findings" -> {"key_findings"}
      [] p = "_detect_contradictions" -> {"contradictions", "complementary_findings"}
      [] p = "_identify_trends" -> {"trends"}
      [] p = "_find_consensus" -> {"consensus_points"}
      [] p = "_detect_gaps" -> {"gaps"}

\* Procedures whose one llm.invoke sits in a try block that returns [].
SingleCall == {"_identify_trends", "_find_consensus", "_detect_gaps"}

\* The states a stage function can be called on.
StageInputs ==
    {[job_id |-> "j1"],
     [job_id |-> "j1", faiss_index_path |-> "None"],
     [job_id |-> "j1", faiss_index_path |-> "index.faiss"]}

StartAnalyzer(state) ==
    [pc |-> "start", state |-> state, step |-> 1, analysis |-> EmptyAnalysis,
     calls |-> {}, faults |-> {}, ret |-> <<>>]

\* if not state.get("faiss_index_path"): return {...}
AnalyzerStart ==
    /\ analyzer.pc = "start"
    /\ analyzer' =
          IF Get(analyzer.state, "faiss_index_path", "None") = "None"
          THEN [analyzer EXCEPT !.pc = "done",
                                !.ret = <<analyzer_node(analyzer.state)>>]
          ELSE [analyzer EXCEPT !.pc = "load"]
    /\ UNCHANGED <<jobVars, researcher, detector, comparator, procVars, clientVars>>

\* vector_store.load_index(...), outside any try block.
AnalyzerLoad ==
    /\ analyzer.pc = "load"
    /\ LET load == [by |-> "analyzer_node", call |-> "load_index"]
       IN \/ analyzer' = [analyzer EXCEPT !.pc = "extract",
                                          !.calls = @ \cup {load}]
          \/ analyzer' = [analyzer EXCEPT !.pc = "raised",
                                          !.calls = @ \cup {load},
                                          !.faults = @ \cup {load}]
    /\ UNCHANGED <<jobVars, researcher, detector, comparator, procVars, clientVars>>

\* One extraction procedure.  Its index queries come first and are outside
\* any try block (analyzer.py:179, 294, 357, 377, 397); its llm.invoke calls
\* are inside one (analyzer.py:242-267, 324-349, 366-372, 386-392, 406-412).
\* A procedure that calls the LLM once returns [] when that call raises;
\* the two that call it in a loop keep what the other calls produced.
AnalyzerExtract ==
    /\ analyzer.pc = "extract"
    /\ analyzer.step <= Len(Procedures)
    /\ LET p == Procedures[analyzer.step]
           query == [by |-> p, call |-> "similarity_search"]
           llm == [by |-> p, call |-> "llm.invoke"]
           store(result) ==
              [f \in DOMAIN analyzer.analysis |->
                  IF f \in ResultFields(p) THEN result ELSE analyzer.analysis[f]]
       IN \/ analyzer' = [analyzer EXCEPT !.pc = "raised",
                                          !.calls = @ \cup {query},
                                          !.faults = @ \cup {query}]
          \/ analyzer' = [analyzer EXCEPT !.step = @ + 1,
                                          !.calls = @ \cup {query, llm},
                                          !.analysis = store(<<"item">>)]
          \/ \E result \in {<<>>, <<"item">>} :
                /\ p \in SingleCall => result = <<>>
                /\ analyzer' = [analyzer EXCEPT !.step = @ + 1,
                                                !.calls = @ \cup {query, llm},
                                                !.faults = @ \cup {llm},
                                                !.analysis = store(result)]
    /\ UNCHANGED <<jobVars, researcher, detector, comparator, procVars, clientVars>>

\* return {"analysis": analysis, "processing_stage": "synthesizing"}
AnalyzerReturn ==
    /\ analyzer.pc = "extract"
    /\ analyzer.step > Len(Procedures)
    /\ analyzer' = [analyzer EXCEPT
          !.pc = "done",
          !.ret = <<[analysis |-> analyzer.analysis,
                     processing_stage |-> "synthesizing"]>>]
    /\ UNCHANGED <<jobVars, researcher, detector, comparator, procVars, clientVars>>

----------------------------------------------------------------------------
(* comparator_node, statement by statement                                 *)
(* paper_metrics is the dict of _extract_metrics_by_paper as the sequence  *)
(* of its items in insertion order; a table row is a function from its     *)
(* keys to their values.                                                   *)

\* Largest number of metric lines kept for one paper.
MaxMetrics == 2

\* Citations of the papers, and metric lines as _extract_metrics_by_paper
\* keeps them: stripped, not empty, with a colon (comparator.py:184-188).
Citations == {"[Lee, 2023]", "[Roy, 2024]"}
MetricLines == {"acc: 91%", "acc : 90%", "Time:3:05", "paper: 12 pages"}

\* Characters in code point order, as sorted() compares them.
CodePoints == " %-.0123456789:ABCDEFGHIJKLMNOPQRSTUVWXYZ[]_abcdefghijklmnopqrstuvwxyz"
Ord(c) == CHOOSE n \in 1..Len(CodePoints) : SubSeq(CodePoints, n, n) = c

\* a < b for two str
RECURSIVE StrLess(_, _)
StrLess(a, b) ==
    IF Len(b) = 0 THEN FALSE
    ELSE IF Len(a) = 0 THEN TRUE
    ELSE LET x == Ord(SubSeq(a, 1, 1))
             y == Ord(SubSeq(b, 1, 1))
         IN x < y \/ (x = y /\ StrLess(SubSeq(a, 2, Len(a)), SubSeq(b, 2, Len(b))))

\* sorted(list(names))
RECURSIVE Sorted(_)
Sorted(names) ==
    IF names = {} THEN <<>>
    ELSE LET least == CHOOSE x \in names : \A y \in names \ {x} : StrLess(x, y)
         IN <<least>> \o Sorted(names \ {least})

\* s.strip()
RECURSIVE Strip(_)
Strip(s) ==
    IF Len(s) > 0 /\ SubSeq(s, 1, 1) = " " THEN Strip(SubSeq(s, 2, Len(s)))
    ELSE IF Len(s) > 0 /\ SubSeq(s, Len(s), Len(s)) = " "
    THEN Strip(SubSeq(s, 1, Len(s) - 1))
    ELSE s

\* ':' in metric, and the position of the first colon
HasColon(metric) == \E n \in 1..Len(metric) : SubSeq(metric, n, n) = ":"
FirstColon(metric) ==
    CHOOSE n \in 1..Len(metric) :
        /\ SubSeq(metric, n, n) = ":"
        /\ \A k \in 1..(n - 1) : SubSeq(metric, k, k) # ":"

\* Variant: the name is taken as it stands before the colon.
MetricNameUnstripped(metric) == SubSeq(metric, 1, FirstColon(metric) - 1)

\* metric.split(':')[0].strip()
MetricName(metric) == Strip(SubSeq(metric, 1, FirstColon(metric) - 1))

\* name, value = metric.split(':', 1); row[name.strip()] = value.strip()
RECURSIVE FillRow(_, _)
FillRow(row, metrics) ==
    IF metrics = <<>> THEN row
    ELSE LET metric == Head(metrics)
             name == Strip(SubSeq(metric, 1, FirstColon(metric) - 1))
             value == Strip(SubSeq(metric, FirstColon(metric) + 1, Len(metric)))
         IN IF HasColon(metric)
            THEN FillRow([k \in (DOMAIN row) \cup {name} |->
                             IF k = name THEN value ELSE row[k]], Tail(metrics))
            ELSE FillRow(row, Tail(metrics))

\* _build_comparison_table
build_comparison_table(paper_metrics) ==
    IF paper_metrics = <<>>
    THEN [metrics_table |-> <<>>, metric_names |-> <<>>]
    ELSE LET all_metric_names ==
                UNION {{MetricName(paper_metrics[n].metrics[k]) :
                           k \in {m \in 1..Len(paper_metrics[n].metrics) :
                                     HasColon(paper_metrics[n].metrics[m])}} :
                       n \in 1..Len(paper_metrics)}
         IN [metrics_table |->
                [n \in 1..Len(paper_metrics) |->
                    FillRow([k \in {"paper"} |-> paper_metrics[n].citation],
                            paper_metrics[n].metrics)],
             metric_names |-> Sorted(all_metric_names)]

\* What _extract_metrics_by_paper can return: for each paper that reported
\* a metric, its citation and list(set(metrics)).
MetricLists ==
    {m \in UNION {[1..n -> MetricLines] : n \in 1..MaxMetrics} :
        \A k, l \in 1..Len(m) : k # l => m[k] # m[l]}
PaperMetrics ==
    {pm \in UNION {[1..n -> [citation : Citations, metrics : MetricLists]] :
                     n \in 0..Cardinality(Citations)} :
        \A k, l \in 1..Len(pm) : k # l => pm[k].citation # pm[l].citation}

StartComparator(state) ==
    [pc |-> "start", state |-> state, paper_metrics |-> <<>>,
     calls |-> {}, faults |-> {}, ret |-> <<>>]

\* Variant: the index is loaded before the path is looked at.
ComparatorStartLoadsFirst ==
    /\ comparator.pc = "start"
    /\ analyzer.pc \in {"idle", "done"}
    /\ comparator' =
          IF Get(comparator.state, "faiss_index_path", "None") = "None"
          THEN [comparator EXCEPT
                   !.pc = "done",
                   !.calls = {[by |-> "comparator_node", call |-> "load_index"]},
                   !.ret = <<comparator_node(comparator.state)>>]
          ELSE [comparator EXCEPT !.pc = "load"]
    /\ UNCHANGED <<jobVars, researcher, analyzer, detector, procVars, clientVars>>

\* if not state.get("faiss_index_path"): return {...}.  The comparator is
\* the node after the analyzer.
ComparatorStart ==
    /\ comparator.pc = "start"
    /\ analyzer.pc \in {"idle", "done"}
    /\ comparator' =
          IF Get(comparator.state, "faiss_index_path", "None") = "None"
          THEN [comparator EXCEPT !.pc = "done",
                                  !.ret = <<comparator_node(comparator.state)>>]
          ELSE [comparator EXCEPT !.pc = "load"]
    /\ UNCHANGED <<jobVars, researcher, analyzer, detector, procVars, clientVars>>

\* vector_store.load_index(...), outside any try block.
ComparatorLoad ==
    /\ comparator.pc = "load"
    /\ LET load == [by |-> "comparator_node", call |-> "load_index"]
       IN \/ comparator' = [comparator EXCEPT !.pc = "extract",
                                              !.calls = @ \cup {load}]
          \/ comparator' = [comparator EXCEPT !.pc = "raised",
                                              !.calls = @ \cup {load},
                                              !.faults = @ \cup {load}]
    /\ UNCHANGED <<jobVars, researcher, analyzer, detector, procVars, clientVars>>

\* The rest of comparator_node (comparator.py:94-123).  The index queries of
\* _extract_metrics_by_paper are outside any try block (comparator.py:158);
\* its llm.invoke calls and the one of _generate_comparison_summary are
\* inside one, the latter with a fallback text (comparator.py:265-270).
ComparatorCompare ==
    /\ comparator.pc = "extract"
    /\ LET query == [by |-> "_extract_metrics_by_paper", call |-> "similarity_search"]
           llm == [by |-> "_extract_metrics_by_paper", call |-> "llm.invoke"]
           summarize == [by |-> "_generate_comparison_summary", call |-> "llm.invoke"]
           done(paper_metrics, summary, faults) ==
              LET built == build_comparison_table(paper_metrics)
              IN [comparator EXCEPT
                     !.pc = "done",
                     !.paper_metrics = paper_metrics,
                     !.calls = @ \cup {query, llm} \cup
                                  (IF built.metrics_table = <<>> THEN {} ELSE {summarize}),
                     !.faults = @ \cup faults,
                     !.ret = <<[comparison |->
                                  [metrics_table |-> built.metrics_table,
                                   metric_names |-> built.metric_names,
                                   comparison_summary |-> summary],
                                processing_stage |-> "synthesizing"]>>]
       IN \/ comparator' = [comparator EXCEPT !.pc = "raised",
                                              !.calls = @ \cup {query},
                                              !.faults = @ \cup {query}]
          \/ \E paper_metrics \in PaperMetrics :
                IF paper_metrics = <<>>
                THEN comparator' =
                        done(paper_metrics, NoMetricsComparison.comparison_summary, {})
                ELSE \/ comparator' = done(paper_metrics, "summary", {})
                     \/ comparator' = done(paper_metrics,
                                           "Extracted metric types across papers.",
                                           {summarize})
    /\ UNCHANGED <<jobVars, researcher, analyzer, detector, procVars, clientVars>>

----------------------------------------------------------------------------
Init ==
    /\ NoJobs
    /\ NoProcs
    /\ NoClients
    /\ researcher = Idle
    /\ analyzer = Idle
    /\ detector = Idle
    /\ comparator = Idle

Next ==
    \/ \E j \in Jobs : SubmitJob(j)
    \/ \E j \in Jobs : PollJob(j)
    \/ \E j \in Jobs : StartRun(j)
    \/ \E j \in Jobs : StreamYield(j)
    \/ \E j \in Jobs : StreamRaise(j)
    \/ \E j \in Jobs : Validate(j)
    \/ \E t \in Threads : Acquire(t)
    \/ \E t \in Threads : Execute(t)
    \/ \E t \in Threads : Commit(t)
    \/ \E t \in Threads : Release(t)

Spec == Init /\ [][Next]_vars

\* One job alone: its submission, its runner and the status requests.
OnlyJob == "j1"
NextSingle ==
    \/ SubmitJob(OnlyJob)
    \/ PollJob(OnlyJob)
    \/ StartRun(OnlyJob)
    \/ StreamYield(OnlyJob)
    \/ StreamRaise(OnlyJob)
    \/ Validate(OnlyJob)
    \/ \E t \in Threads : Acquire(t)
    \/ \E t \in Threads : Execute(t)
    \/ \E t \in Threads : Commit(t)
    \/ \E t \in Threads : Release(t)

SpecSingle == Init /\ [][NextSingle]_vars

\* One job's run while the API thread creates, reads and removes rows:
\* the other job is submitted but its runner is not followed.
NextRemoval ==
    \/ \E j \in Jobs : SubmitJob(j)
    \/ \E j \in Jobs : PollJob(j)
    \/ StoreDelete(ApiThread)
    \/ StartRun(OnlyJob)
    \/ StreamYield(OnlyJob)
    \/ StreamRaise(OnlyJob)
    \/ Validate(OnlyJob)
    \/ \E t \in Threads : Acquire(t)
    \/ \E t \in Threads : Execute(t)
    \/ \E t \in Threads : Commit(t)
    \/ \E t \in Threads : Release(t)

SpecRemoval == Init /\ [][NextRemoval]_vars

----------------------------------------------------------------------------
(* The polling loop of main.py                                             *)
(* The client has posted its job and polls GET /status/{job_id} until the  *)
(* status is terminal, the ceiling is reached, the user interrupts or a    *)
(* request fails.  polls counts the GET requests sent; exit is the way the *)
(* loop was left.                                                          *)

\* max_polls = 600
max_polls == 600

StartCli ==
    [pc |-> "submit", poll_count |-> 0, polls |-> 0, exit |-> "none"]

\* requests.post(.../research) has returned the job id, or has failed.
CliSubmit ==
    /\ cli.pc = "submit"
    /\ \/ /\ OnlyJob \in DOMAIN db
          /\ call[ApiThread] = NoCall
          /\ cli' = [cli EXCEPT !.pc = "loop"]
       \/ cli' = [cli EXCEPT !.pc = "exit", !.exit = "submit_error"]
    /\ UNCHANGED <<jobVars, stageVars, procVars, ui>>

\* Variant: the loop goes on whatever the counter says.
CliPollUnbounded ==
    /\ cli.pc = "loop"
    /\ cli.polls <= max_polls
    /\ call[ApiThread] = NoCall
    /\ call' = [call EXCEPT ![ApiThread] = Enter("get_job", OnlyJob, NoArgs)]
    /\ cli' = [cli EXCEPT !.pc = "waiting", !.polls = @ + 1]
    /\ UNCHANGED <<db, lock, pc, node, gstate, final_state, events, snapshots,
                   writes, rowHist>>
    /\ UNCHANGED <<stageVars, procVars, ui>>

\* while poll_count < max_polls: requests.get(.../status/{job_id})
CliPoll ==
    /\ cli.pc = "loop"
    /\ cli.poll_count < max_polls
    /\ call[ApiThread] = NoCall
    /\ call' = [call EXCEPT ![ApiThread] = Enter("get_job", OnlyJob, NoArgs)]
    /\ cli' = [cli EXCEPT !.pc = "waiting", !.polls = @ + 1]
    /\ UNCHANGED <<db, lock, pc, node, gstate, final_state, events, snapshots,
                   writes, rowHist>>
    /\ UNCHANGED <<stageVars, procVars, ui>>

\* The handler returns what get_job fetched and the loop body runs on it:
\* a missing row is a 404 that raise_for_status turns into an HTTPError;
\* "complete" breaks, "failed" exits, anything else sleeps and counts.
CliReceive ==
    /\ cli.pc = "waiting"
    /\ call[ApiThread].op = "get_job"
    /\ call[ApiThread].phase = "executed"
    /\ lock' = "free"
    /\ call' = [call EXCEPT ![ApiThread] = NoCall]
    /\ LET result == call[ApiThread].result
       IN cli' = IF result = <<>>
                 THEN [cli EXCEPT !.pc = "exit", !.exit = "request_error"]
                 ELSE IF result[1].status = "complete"
                 THEN [cli EXCEPT !.pc = "fetch", !.exit = "complete"]
                 ELSE IF result[1].status = "failed"
                 THEN [cli EXCEPT !.pc = "exit", !.exit = "failed"]
                 ELSE [cli EXCEPT !.pc = "loop", !.poll_count = @ + 1]
    /\ UNCHANGED <<db, pc, node, gstate, final_state, events, snapshots,
                   writes, rowHist>>
    /\ UNCHANGED <<stageVars, procVars, ui>>

\* if poll_count >= max_polls: ... sys.exit(1)
CliTimeout ==
    /\ cli.pc = "loop"
    /\ cli.poll_count >= max_polls
    /\ cli' = [cli EXCEPT !.pc = "exit", !.exit = "timeout"]
    /\ UNCHANGED <<jobVars, stageVars, procVars, ui>>

\* except KeyboardInterrupt / except requests.exceptions.RequestException
CliAbort ==
    /\ cli.pc \in {"loop", "waiting"}
    /\ \E reason \in {"interrupt", "request_error"} :
          /\ reason = "request_error" => cli.pc = "waiting"
          /\ cli' = [cli EXCEPT !.pc = "exit", !.exit = reason]
    /\ UNCHANGED <<jobVars, stageVars, procVars, ui>>

----------------------------------------------------------------------------
(* The polling section of app.py                                           *)
(* st.session_state (job_id, polling_active) outlives a run of the script; *)
(* poll_count is a local of the run.  st.rerun() ends the run where it is  *)
(* called and starts the script again from its first line.  shown is what  *)
(* the status placeholder or the last st.error holds.                      *)

StartUi ==
    [pc |-> "button", polling_active |-> FALSE, poll_count |-> 0,
     shown |-> "none"]

\* The "Start Research" button: the POST has returned the job id, which is
\* stored with polling_active = True; the same run goes on to the polling
\* section and sets poll_count = 0.  A failed POST ends in st.stop().
UiSubmit ==
    /\ ui.pc = "button"
    /\ \/ /\ OnlyJob \in DOMAIN db
          /\ call[ApiThread] = NoCall
          /\ ui' = [ui EXCEPT !.pc = "loop", !.polling_active = TRUE,
                              !.poll_count = 0]
       \/ ui' = [ui EXCEPT !.pc = "end", !.shown = "submit_error"]
    /\ UNCHANGED <<jobVars, stageVars, procVars, cli>>

\* A new run of the script after st.rerun(): with polling_active set it
\* reaches the polling section, where poll_count = 0.
UiRerun ==
    /\ ui.pc = "rerun"
    /\ ui' = IF ui.polling_active
             THEN [ui EXCEPT !.pc = "loop", !.poll_count = 0]
             ELSE [ui EXCEPT !.pc = "end"]
    /\ UNCHANGED <<jobVars, stageVars, procVars, cli>>

\* while polling_active and poll_count < max_polls: requests.get(status)
UiPoll ==
    /\ ui.pc = "loop"
    /\ ui.polling_active
    /\ ui.poll_count < max_polls
    /\ call[ApiThread] = NoCall
    /\ call' = [call EXCEPT ![ApiThread] = Enter("get_job", OnlyJob, NoArgs)]
    /\ ui' = [ui EXCEPT !.pc = "waiting"]
    /\ UNCHANGED <<db, lock, pc, node, gstate, final_state, events, snapshots,
                   writes, rowHist>>
    /\ UNCHANGED <<stageVars, procVars, cli>>

\* The body of the loop on the row that get_job fetched.  A missing row is
\* a 404, which raise_for_status raises as a RequestException.  The chain
\* tests the stage first: its failure branch is reached only with a stage
\* that none of the earlier branches (StageBranches) names.
UiReceive ==
    /\ ui.pc = "waiting"
    /\ call[ApiThread].op = "get_job"
    /\ call[ApiThread].phase = "executed"
    /\ lock' = "free"
    /\ call' = [call EXCEPT ![ApiThread] = NoCall]
    /\ LET result == call[ApiThread].result
           StageBranches == {"queued", "researching", "analyzing", "comparing",
                             "synthesizing", "complete"}
       IN ui' =
            IF result = <<>>
            THEN [ui EXCEPT !.pc = "after_loop", !.polling_active = FALSE,
                            !.shown = "poll_error"]
            ELSE LET stage  == result[1].processing_stage
                     status == result[1].status
                 IN IF stage \notin StageBranches
                        /\ (stage = "failed" \/ status = "failed")
                    THEN [ui EXCEPT !.pc = "after_loop",
                                    !.polling_active = FALSE,
                                    !.shown = "error"]
                    ELSE IF status = "complete"
                    THEN [ui EXCEPT !.pc = "after_loop",
                                    !.polling_active = FALSE,
                                    !.shown = "results"]
                    ELSE [ui EXCEPT !.pc = "rerun",
                                    !.poll_count = @ + 1,
                                    !.shown = IF stage \in StageBranches
                                              THEN stage ELSE @]
    /\ UNCHANGED <<db, pc, node, gstate, final_state, events, snapshots,
                   writes, rowHist>>
    /\ UNCHANGED <<stageVars, procVars, cli>>

\* except requests.exceptions.RequestException: the GET timed out or the
\* connection failed.
UiAbort ==
    /\ ui.pc = "waiting"
    /\ ui' = [ui EXCEPT !.pc = "after_loop", !.polling_active = FALSE,
                        !.shown = "poll_error"]
    /\ UNCHANGED <<jobVars, stageVars, procVars, cli>>

\* The loop is left, by break or by its condition:
\* if poll_count >= max_polls: st.error(timeout); polling_active = False
UiAfterLoop ==
    /\ \/ ui.pc = "after_loop"
       \/ ui.pc = "loop" /\ ~(ui.polling_active /\ ui.poll_count < max_polls)
    /\ ui' = IF ui.poll_count >= max_polls
             THEN [ui EXCEPT !.pc = "end", !.polling_active = FALSE,
                             !.shown = "timeout"]
             ELSE [ui EXCEPT !.pc = "end"]
    /\ UNCHANGED <<jobVars, stageVars, procVars, cli>>

\* One job, its runner and the command-line client that submitted it.
InitCli ==
    /\ NoJobs
    /\ researcher = Idle /\ analyzer = Idle /\ detector = Idle /\ comparator = Idle
    /\ NoProcs
    /\ cli = StartCli
    /\ ui = Idle

NextCli ==
    \/ SubmitJob(OnlyJob)
    \/ StartRun(OnlyJob)
    \/ StreamYield(OnlyJob)
    \/ StreamRaise(OnlyJob)
    \/ Validate(OnlyJob)
    \/ \E t \in Threads : Acquire(t)
    \/ \E t \in Threads : Execute(t)
    \/ \E t \in Threads : Commit(t)
    \/ \E t \in Threads : Release(t)
    \/ CliSubmit
    \/ CliPoll
    \/ CliReceive
    \/ CliTimeout
    \/ CliAbort

SpecCli == InitCli /\ [][NextCli]_vars

\* One job, its runner and the Streamlit script that submitted it.
InitUi ==
    /\ NoJobs
    /\ researcher = Idle /\ analyzer = Idle /\ detector = Idle /\ comparator = Idle
    /\ NoProcs
    /\ cli = Idle
    /\ ui = StartUi

NextUi ==
    \/ SubmitJob(OnlyJob)
    \/ StartRun(OnlyJob)
    \/ StreamYield(OnlyJob)
    \/ StreamRaise(OnlyJob)
    \/ Validate(OnlyJob)
    \/ \E t \in Threads : Acquire(t)
    \/ \E t \in Threads : Execute(t)
    \/ \E t \in Threads : Commit(t)
    \/ \E t \in Threads : Release(t)
    \/ UiSubmit
    \/ UiRerun
    \/ UiPoll
    \/ UiReceive
    \/ UiAbort
    \/ UiAfterLoop

\* A script run goes on until it ends or waits for a response; a request
\* left without a response times out (timeout=5); the API process serves a
\* request it has accepted, and a thread inside a JobStore method goes on
\* to leave it.  Nothing is assumed about the pace of the graph.  The
\* subscript names what a step of the client or of a JobStore method changes.
SpecUiFair ==
    /\ InitUi
    /\ [][NextUi]_vars
    /\ WF_<<ui, call, lock, db>>(UiSubmit \/ UiRerun \/ UiPoll \/ UiReceive
                                    \/ UiAfterLoop)
    /\ WF_<<ui, call, lock, db>>(UiAbort)
    /\ WF_<<ui, call, lock, db>>(SubmitJob(OnlyJob))
    /\ \A t \in Threads :
          SF_<<ui, call, lock, db>>(Acquire(t) \/ Execute(t) \/ Commit(t)
                                        \/ Release(t))

----------------------------------------------------------------------------
(* _extract_key_findings                                                   *)
(* A chunk's text is kept as its length and its first 100 characters       *)
(* (head).  The index holds, for each document, two long chunks of its     *)
(* own, a short one, one that repeats the head of the first, one whose     *)
(* head is the same in every document and one more long chunk.  chunk and *)
(* calls are ghost fields: the chunk a finding came from and the number of *)
(* llm.invoke calls.                                                       *)

\* Number of documents in the index.
MaxDocs == 7

\* len(key_queries)
NumQueries == 12

CitationOf(d) == <<"citation", d>>

ChunksOf(d) ==
    LET chunk(len, head) ==
            [text |-> [len |-> len, head |-> head],
             metadata |-> [arxiv_id |-> d, citation |-> CitationOf(d)]]
    IN << chunk(250, <<d, 1>>), chunk(150, <<d, 2>>), chunk(250, <<d, 1>>),
          chunk(300, <<d, 4>>), chunk(250, <<0, 5>>), chunk(250, <<d, 6>>) >>

RECURSIVE ChunksFrom(_, _)
ChunksFrom(first, last) ==
    IF first > last THEN <<>> ELSE ChunksOf(first) \o ChunksFrom(first + 1, last)

\* similarity_search(query, k=50): the best k chunks; here the chunks of a
\* range of documents, in the order of the index.
similarity_search(first, last, k) == Prefix(ChunksFrom(first, last), k)

\* if len(text) < 200: continue
too_short(text) == text.len < 200

\* Variant: a fourth chunk of a document is let through.
quota_reachedLate(current_count) == current_count > 3
\* if current_count >= 3: continue
quota_reached(current_count) == current_count >= 3

\* existing_chunk["text"][:100] == text[:100] for some collected chunk
is_duplicate(substantive_chunks, text) ==
    \E n \in 1..Len(substantive_chunks) :
        substantive_chunks[n].text.head = text.head

\* The inner loop over the results of one query, with its break at 20 chunks.
RECURSIVE Scan(_, _, _)
Scan(substantive_chunks, paper_chunk_counts, results) ==
    IF results = <<>>
    THEN [substantive_chunks |-> substantive_chunks,
          paper_chunk_counts |-> paper_chunk_counts]
    ELSE LET text == Head(results).text
             metadata == Head(results).metadata
             arxiv_id == metadata.arxiv_id
             current_count == Get(paper_chunk_counts, arxiv_id, 0)
             appended ==
                 Append(substantive_chunks,
                        [text |-> text, citation |-> metadata.citation,
                         arxiv_id |-> arxiv_id])
             counted ==
                 [d \in DOMAIN paper_chunk_counts \cup {arxiv_id} |->
                     IF d = arxiv_id THEN current_count + 1
                     ELSE paper_chunk_counts[d]]
         IN IF too_short(text) \/ quota_reached(current_count)
                \/ is_duplicate(substantive_chunks, text)
            THEN Scan(substantive_chunks, paper_chunk_counts, Tail(results))
            ELSE IF Len(appended) >= 20
            THEN [substantive_chunks |-> appended, paper_chunk_counts |-> counted]
            ELSE Scan(appended, counted, Tail(results))

StartCollector ==
    [pc |-> "query", q |-> 1, substantive_chunks |-> <<>>,
     paper_chunk_counts |-> <<>>, n |-> 1, findings |-> <<>>, calls |-> 0,
     ret |-> <<>>]

\* for query in key_queries: one query and the scan of its results; the
\* loop ends after the last query or with 20 chunks held.  A query brings
\* back the chunks of one of four ranges of documents.
CollectorQuery ==
    /\ collector.pc = "query"
    /\ \E range \in {<<1, 0>>, <<1, 3>>, <<3, MaxDocs>>, <<1, MaxDocs>>} :
          LET results == similarity_search(range[1], range[2], 50)
              scanned == Scan(collector.substantive_chunks,
                              collector.paper_chunk_counts, results)
              full == Len(scanned.substantive_chunks) >= 20
          IN collector' =
                [collector EXCEPT
                    !.substantive_chunks = scanned.substantive_chunks,
                    !.paper_chunk_counts = scanned.paper_chunk_counts,
                    !.q = IF full THEN @ ELSE @ + 1,
                    !.pc = IF full \/ collector.q = NumQueries
                           THEN "extract" ELSE "query"]
    /\ UNCHANGED <<jobVars, stageVars, extractor, clientVars>>

\* for chunk in substantive_chunks[:10]: one llm.invoke and its filters.
\* The call gives a finding, the SKIP sentinel, a conversational answer or
\* an exception.
CollectorExtract ==
    /\ collector.pc = "extract"
    /\ collector.n <= Len(Prefix(collector.substantive_chunks, 10))
    /\ \E response \in {"finding", "SKIP - no concrete finding",
                         "I'd be happy to help", "raise"} :
          LET chunk == collector.substantive_chunks[collector.n]
          IN collector' =
                [collector EXCEPT
                    !.calls = @ + 1,
                    !.n = @ + 1,
                    !.findings =
                        IF response = "finding"
                        THEN Append(@, [finding |-> response,
                                        citation |-> chunk.citation,
                                        arxiv_id |-> chunk.arxiv_id,
                                        chunk |-> collector.n])
                        ELSE @]
    /\ UNCHANGED <<jobVars, stageVars, extractor, clientVars>>

\* return findings
CollectorReturn ==
    /\ collector.pc = "extract"
    /\ collector.n > Len(Prefix(collector.substantive_chunks, 10))
    /\ collector' = [collector EXCEPT !.pc = "done", !.ret = <<collector.findings>>]
    /\ UNCHANGED <<jobVars, stageVars, extractor, clientVars>>

\* One activation of _extract_key_findings.
InitCollector ==
    /\ NoJobs
    /\ researcher = Idle /\ analyzer = Idle /\ detector = Idle /\ comparator = Idle
    /\ extractor = Idle
    /\ collector = StartCollector
    /\ NoClients

NextCollector == CollectorQuery \/ CollectorExtract \/ CollectorReturn

SpecCollector == InitCollector /\ [][NextCollector]_vars

----------------------------------------------------------------------------
(* _extract_metrics_by_paper                                               *)
(* paper_metrics is the dict as the sequence of its items in insertion     *)
(* order.  A response of the LLM is kept as the lines that split('\n')     *)
(* gives.  calls (llm.invoke calls for the current paper) and parsed (the  *)
(* metric lines parsed for each paper gone through) are ghost fields.      *)

\* Largest number of documents handed to the procedure.
MaxExtracted == 2

\* The chunks of the index: those of the documents and those of another
\* paper (arxiv_id 0), rounds chunks of each, one after the other.
Interleaved(rounds) ==
    [i \in 1..rounds * (MaxExtracted + 1) |->
        [text |-> <<i>>, metadata |-> [arxiv_id |-> (i - 1) % (MaxExtracted + 1)]]]

\* The lines of what llm.invoke can answer.
MetricResponses ==
    {<<"NO_METRICS">>,
     <<"Extracted metrics:", " acc: 91% ", "", "acc: 91%">>,
     <<"Example: f1: 0.5", "Time:3:05", "no value">>,
     <<"acc: 91%", "NO_METRICS beyond">>}

\* "NO_METRICS" in response_text
Contains(s, sub) ==
    \E n \in 1..Len(s) - Len(sub) + 1 : SubSeq(s, n, n + Len(sub) - 1) = sub

\* The lines of one response that are appended to metrics.
RECURSIVE ParsedLines(_)
ParsedLines(lines) ==
    IF lines = <<>> THEN <<>>
    ELSE LET line == Strip(Head(lines))
         IN IF line # "" /\ HasColon(line) /\ ~StartsWith(line, "Extracted")
                /\ ~StartsWith(line, "Example")
            THEN <<line>> \o ParsedLines(Tail(lines))
            ELSE ParsedLines(Tail(lines))

\* Variant: every retrieved chunk is kept.
own_chunkAny(metadata, arxiv_id) == TRUE
\* if metadata["arxiv_id"] == arxiv_id
own_chunk(metadata, arxiv_id) == metadata.arxiv_id = arxiv_id

\* The inner loop over the results of one query, with its break at 5 chunks.
RECURSIVE Keep(_, _, _)
Keep(paper_chunks, all_results, arxiv_id) ==
    IF all_results = <<>> THEN paper_chunks
    ELSE IF own_chunk(Head(all_results).metadata, arxiv_id)
    THEN LET kept == Append(paper_chunks, Head(all_results))
         IN IF Len(kept) >= 5 THEN kept
            ELSE Keep(kept, Tail(all_results), arxiv_id)
    ELSE Keep(paper_chunks, Tail(all_results), arxiv_id)

\* [d for d in documents if d.get("extraction_status") == "success"]
RECURSIVE successful_papers(_)
successful_papers(documents) ==
    IF documents = <<>> THEN <<>>
    ELSE IF Get(Head(documents), "extraction_status", "None") = "success"
    THEN <<Head(documents)>> \o successful_papers(Tail(documents))
    ELSE successful_papers(Tail(documents))

\* list(set(metrics)): the distinct lines, in an order the set decides.
Uniques(metrics) ==
    LET distinct == {metrics[n] : n \in 1..Len(metrics)}
    IN {u \in [1..Cardinality(distinct) -> distinct] :
           \A k, l \in 1..Len(u) : k # l => u[k] # u[l]}

\* paper_metrics[citation] = unique_metrics
SetItem(paper_metrics, citation, unique_metrics) ==
    IF \E n \in 1..Len(paper_metrics) : paper_metrics[n].citation = citation
    THEN [n \in 1..Len(paper_metrics) |->
             IF paper_metrics[n].citation = citation
             THEN [citation |-> citation, metrics |-> unique_metrics]
             ELSE paper_metrics[n]]
    ELSE Append(paper_metrics, [citation |-> citation, metrics |-> unique_metrics])

StartExtractor(documents) ==
    [pc |-> "paper", documents |-> documents, p |-> 1, paper_chunks |-> <<>>,
     query |-> 1, n |-> 1, metrics |-> <<>>, paper_metrics |-> <<>>,
     calls |-> 0, parsed |-> <<>>, ret |-> <<>>]

\* The paper the loop is at.
Paper == successful_papers(extractor.documents)[extractor.p]

\* for paper in successful_papers: the next paper, or return paper_metrics
ExtractorPaper ==
    /\ extractor.pc = "paper"
    /\ extractor' =
          IF extractor.p > Len(successful_papers(extractor.documents))
          THEN [extractor EXCEPT !.pc = "done", !.ret = <<extractor.paper_metrics>>]
          ELSE [extractor EXCEPT !.pc = "query", !.paper_chunks = <<>>,
                                 !.query = 1, !.n = 1, !.metrics = <<>>,
                                 !.calls = 0]
    /\ UNCHANGED <<jobVars, stageVars, collector, clientVars>>

\* for query in queries: one of the three queries and the filter of its
\* results; the loop ends after the third query or with 5 chunks held.
\* similarity_search(query, k=50) brings back nothing, or two or six chunks
\* of each paper.
ExtractorQuery ==
    /\ extractor.pc = "query"
    /\ \E all_results \in {<<>>, Prefix(Interleaved(2), 50),
                            Prefix(Interleaved(6), 50)} :
          LET kept == Keep(extractor.paper_chunks, all_results, Paper.arxiv_id)
          IN extractor' =
                [extractor EXCEPT
                    !.paper_chunks = kept,
                    !.query = @ + 1,
                    !.pc = IF Len(kept) >= 5 \/ extractor.query = 3
                           THEN "llm" ELSE "query"]
    /\ UNCHANGED <<jobVars, stageVars, collector, clientVars>>

\* for text, metadata in paper_chunks[:3]: one llm.invoke and the parse of
\* its answer; an exception of the call is logged.
ExtractorInvoke ==
    /\ extractor.pc = "llm"
    /\ extractor.n <= Len(Prefix(extractor.paper_chunks, 3))
    /\ \/ \E lines \in MetricResponses :
             extractor' =
                [extractor EXCEPT
                    !.n = @ + 1,
                    !.calls = @ + 1,
                    !.metrics =
                        IF \E k \in 1..Len(lines) : Contains(lines[k], "NO_METRICS")
                        THEN @ ELSE @ \o ParsedLines(lines)]
       \/ extractor' = [extractor EXCEPT !.n = @ + 1, !.calls = @ + 1]
    /\ UNCHANGED <<jobVars, stageVars, collector, clientVars>>

\* if metrics: paper_metrics[citation] = list(set(metrics))
ExtractorStore ==
    /\ extractor.pc = "llm"
    /\ extractor.n > Len(Prefix(extractor.paper_chunks, 3))
    /\ \E unique_metrics \in Uniques(extractor.metrics) :
          extractor' =
             [extractor EXCEPT
                 !.pc = "paper",
                 !.p = @ + 1,
                 !.parsed = Append(@, [arxiv_id |-> Paper.arxiv_id,
                                       lines |-> {extractor.metrics[k] :
                                                    k \in 1..Len(extractor.metrics)}]),
                 !.paper_metrics =
                     IF extractor.metrics # <<>>
                     THEN SetItem(@, Paper.citation, unique_metrics)
                     ELSE @]
    /\ UNCHANGED <<jobVars, stageVars, collector, clientVars>>

\* One activation of _extract_metrics_by_paper, on any documents.
InitExtractor ==
    /\ NoJobs
    /\ researcher = Idle /\ analyzer = Idle /\ detector = Idle /\ comparator = Idle
    /\ collector = Idle
    /\ NoClients
    /\ \E count \in 0..MaxExtracted :
          \E status \in [1..count -> {"success", "failed"}] :
             extractor =
                StartExtractor([d \in 1..count |->
                                   [arxiv_id |-> d, citation |-> CitationOf(d),
                                    extraction_status |-> status[d]]])

NextExtractor == ExtractorPaper \/ ExtractorQuery \/ ExtractorInvoke \/ ExtractorStore

SpecExtractor == InitExtractor /\ [][NextExtractor]_vars

\* The ledger under arbitrary clients.
NextStore ==
    \/ \E j \in Jobs : SubmitJob(j)
    \/ \E t \in Threads : StoreUpdate(t)
    \/ \E t \in Threads : StoreDelete(t)
    \/ \E t \in Threads : StoreRead(t)
    \/ \E t \in Threads : Acquire(t)
    \/ \E t \in Threads : Execute(t)
    \/ \E t \in Threads : Commit(t)
    \/ \E t \in Threads : Release(t)

SpecStore == Init /\ [][NextStore]_vars

\* analyzer_node and comparator_node run on the same state, the comparator
\* after the analyzer (research_graph.py:41).  Neither reads what the other
\* returns, so where the state holds an index each is followed on its own;
\* where it holds none, both are followed in sequence.
InitAnalysis ==
    /\ NoJobs
    /\ NoProcs
    /\ NoClients
    /\ researcher = Idle
    /\ detector = Idle
    /\ \E state \in StageInputs, run \in SUBSET {"analyzer_node", "comparator_node"} :
          /\ run # {}
          /\ Cardinality(run) = 2 => Get(state, "faiss_index_path", "None") = "None"
          /\ analyzer = IF "analyzer_node" \in run THEN StartAnalyzer(state) ELSE Idle
          /\ comparator = IF "comparator_node" \in run THEN StartComparator(state) ELSE Idle

NextAnalysis ==
    \/ AnalyzerStart
    \/ AnalyzerLoad
    \/ AnalyzerExtract
    \/ AnalyzerReturn
    \/ ComparatorStart
    \/ ComparatorLoad
    \/ ComparatorCompare

SpecAnalysis == InitAnalysis /\ [][NextAnalysis]_vars

\* One activation of _detect_contradictions, on any chunks and responses.
InitDetector ==
    /\ NoJobs
    /\ NoProcs
    /\ NoClients
    /\ researcher = Idle
    /\ analyzer = Idle
    /\ detector = StartDetector
    /\ comparator = Idle

NextDetector ==
    \/ DetectorQuery
    \/ DetectorPair
    \/ DetectorReturn

SpecDetector == InitDetector /\ [][NextDetector]_vars

----------------------------------------------------------------------------
(* Properties                                                              *)

StageOrder == <<"researcher", "analyzer", "comparator", "synthesizer">>

LabelOrder == <<"researching", "analyzing", "comparing", "synthesizing", "complete">>

Rank(label) == CHOOSE i \in 1..Len(LabelOrder) : LabelOrder[i] = label

Ordered(label) == \E i \in 1..Len(LabelOrder) : LabelOrder[i] = label

\* run_research_job has returned.
Finished(j) == pc[j] \in {"completed", "incomplete", "raised"} /\ call[j] = NoCall

\* The search of job j returned no candidate.
ZeroPapers(j) ==
    \E i \in 1..Len(gstate[j].error_log) :
        gstate[j].error_log[i].stage = "arxiv_search"

\* The row obtained from row by the given updates, in order.
RECURSIVE ApplyWrites(_, _)
ApplyWrites(row, ws) ==
    IF ws = <<>> THEN row
    ELSE ApplyWrites(UpdatedRow(row, ws[1]), Tail(ws))

\* C1: in every run the processing_stage values of the merged snapshots are
\* non-decreasing in researching < analyzing < comparing < synthesizing <
\* complete, "complete" is never seen before "synthesizing", and once the
\* value is "failed" no later delta replaces it.
C1_StageMonotonic ==
    \A j \in Jobs : \A i \in 1..(Len(snapshots[j]) - 1) :
        LET a == snapshots[j][i]
            b == snapshots[j][i + 1]
        IN /\ a = "failed" => b = "failed"
           /\ (Ordered(a) /\ Ordered(b)) => Rank(a) <= Rank(b)
           /\ b = "complete" =>
                 \E k \in 1..i : snapshots[j][k] = "synthesizing"

\* C2: if the search returns zero papers, the run ends with ledger status
\* "failed", "complete" is never written, and the final merged snapshot has
\* no documents and processing_stage "failed".
C2_ZeroPapersFail ==
    \A j \in Jobs :
        ZeroPapers(j) =>
            /\ \A i \in 1..Len(writes[j]) :
                  Get(writes[j][i], "status", "None") # "complete"
            /\ (Finished(j) /\ j \in DOMAIN db) =>
                  /\ db[j].status = "failed"
                  /\ final_state[j].documents = <<>>
                  /\ final_state[j].processing_stage = "failed"

\* C3: the stream yields the deltas of researcher, analyzer, comparator and
\* synthesizer in that order, each once, whatever labels the stages return;
\* it is exhausted exactly after the fourth; a stage that raises is the last
\* one to run and the runner's except clause is reached.
C3_LinearStream ==
    \A j \in Jobs :
        LET n == Len(events[j])
        IN /\ n <= Len(StageOrder)
           /\ events[j] = SubSeq(StageOrder, 1, n)
           /\ node[j] = IF n = Len(StageOrder) THEN "END" ELSE StageOrder[n + 1]
           /\ pc[j] \in {"completed", "incomplete"} => n = Len(StageOrder)
           /\ pc[j] = "raised" => n < Len(StageOrder)

C3_Witness ==
    \E j, k \in Jobs :
        /\ events[j] = StageOrder /\ snapshots[j][2] = "failed"
        /\ pc[k] = "raised" /\ Len(events[k]) = 2

\* C4: every stage delta sets processing_stage to the successor of the stage
\* it ran in: researcher (non-empty search) "analyzing", analyzer
\* "comparing", comparator "synthesizing".
C4_NextLabel ==
    \A j \in Jobs : \A i \in 1..Len(events[j]) :
        LET after == snapshots[j][i + 1]
        IN /\ (events[j][i] = "researcher" /\ ~ZeroPapers(j)) => after = "analyzing"
           /\ events[j][i] = "analyzer" => after = "comparing"
           /\ events[j][i] = "comparator" => after = "synthesizing"

\* C5: a row with status "complete" has progress 100 and a final snapshot
\* that get_job returns without any "text" field; the three were written by
\* one update, the only "complete" write of the run, made after the stream
\* was exhausted with the merged label "complete".
C5_CompleteRow ==
    \A j \in DOMAIN db :
        db[j].status = "complete" =>
            LET job == JobDict(db[j])
                last == writes[j][Len(writes[j])]
            IN /\ db[j].progress_percentage = 100
               /\ job.final_state # <<>>
               /\ \A i \in 1..Len(job.final_state[1].documents) :
                     "text" \notin DOMAIN job.final_state[1].documents[i]
               /\ writes[j] # <<>>
               /\ DOMAIN last = {"status", "processing_stage", "progress_percentage",
                                 "current_message", "final_state"}
               /\ last.status = "complete" /\ last.progress_percentage = 100
               /\ JsonDumps(last.final_state) = db[j].final_state_json
               /\ Cardinality({i \in 1..Len(writes[j]) :
                     Get(writes[j][i], "status", "None") = "complete"}) = 1
               /\ node[j] = "END"
               /\ final_state[j].processing_stage = "complete"
               /\ \A t \in Threads :
                     (call[t].op = "get_job" /\ call[t].job = j
                         /\ call[t].phase = "executed") =>
                        call[t].result = <<job>>

\* get_job returns the row of a completed job whose researcher had produced
\* a document with its text.
C5_Witness ==
    \E j \in DOMAIN db :
        /\ db[j].status = "complete"
        /\ \E i \in 1..Len(gstate[j].documents) :
              "text" \in DOMAIN gstate[j].documents[i]
        /\ call[ApiThread].op = "get_job"
        /\ call[ApiThread].job = j
        /\ call[ApiThread].phase = "executed"
        /\ call[ApiThread].result # <<>>

\* C6: when the stream is exhausted short of "complete", or a stage raises
\* any of the three exception classes, the last write of the run sets status
\* "failed", progress 0 and a non-empty error, and nothing else but the
\* update time: the row differs between the three classes in the error text
\* only.
C6_FailureWrite ==
    \A j \in DOMAIN db :
        (Finished(j) /\ pc[j] \in {"incomplete", "raised"}) =>
            LET n == Len(writes[j])
                before == ApplyWrites(NewRow(db[j].created_at),
                                      SubSeq(writes[j], 1, n - 1))
            IN /\ n >= 1
               /\ db[j].status = "failed"
               /\ db[j].progress_percentage = 0
               /\ db[j].error \notin {"None", ""}
               /\ db[j].error = writes[j][n].error
               /\ [db[j] EXCEPT !.error = "None"] =
                     [before EXCEPT !.status = "failed",
                                    !.progress_percentage = 0,
                                    !.error = "None",
                                    !.updated_at = db[j].updated_at]

C6_Witness ==
    \E j, k \in DOMAIN db :
        /\ Finished(j) /\ pc[j] = "incomplete"
        /\ Finished(k) /\ pc[k] = "raised"

\* C7: the progress values written during one run never decrease, except
\* that one write may reset the progress to 0, and that write is the last.
C7_ProgressMonotone ==
    \A j \in Jobs :
        /\ \A i \in 1..(Len(writes[j]) - 1) :
              \/ writes[j][i].progress_percentage
                    <= writes[j][i + 1].progress_percentage
              \/ /\ writes[j][i + 1].progress_percentage = 0
                 /\ i + 1 = Len(writes[j])
        /\ Cardinality({i \in 1..Len(writes[j]) :
                           writes[j][i].progress_percentage = 0}) <= 1

C7_Witness ==
    \E j \in Jobs :
        /\ Len(writes[j]) >= 4
        /\ writes[j][Len(writes[j])].progress_percentage = 0
        /\ Finished(j)

\* C8: once the status of a row is "complete" or "failed" the runner starts
\* no further update and the row never changes again (it can only be
\* removed).
C8_TerminalIsFinal ==
    [][\A j \in DOMAIN db :
          db[j].status \in {"complete", "failed"} =>
             /\ j \in DOMAIN db' => db'[j] = db[j]
             /\ writes'[j] = writes[j]
             /\ call'[j].op = "none" \/ call'[j].phase = "committed"]_vars

C8_Witness ==
    \E j, k \in DOMAIN db :
        /\ db[j].status = "complete" /\ Finished(j)
        /\ db[k].status = "failed" /\ Finished(k)

\* The thread has a connection open.
InStore(t) ==
    call[t].op # "none" /\ call[t].phase \in {"connected", "executed", "committed"}

\* C9: every JobStore operation runs from connect to close while holding the
\* one lock, so no two ledger operations are ever in progress together.
C9_LockHeld ==
    /\ \A t \in Threads : InStore(t) => lock = t
    /\ Cardinality({t \in Threads : InStore(t)}) <= 1

C9_Witness ==
    \E t, u \in Threads :
        /\ call[t].op = "update_job_status" /\ call[t].phase = "executed"
        /\ call[u].op = "update_job_status" /\ call[u].phase = "wait"
        /\ call[t].job = call[u].job
        /\ call[t].job \in DOMAIN db

\* C10: an update of one job changes no other job's row, every row is the
\* result of all the updates committed for its job (none is lost), and
\* get_job returns a whole committed version of the row.
C10_RowsIsolated ==
    /\ [](/\ \A j \in DOMAIN db :
                db[j] = ApplyWrites(NewRow(db[j].created_at), writes[j])
          /\ \A t \in Threads :
                (call[t].op = "get_job" /\ call[t].phase = "executed"
                    /\ call[t].result # <<>>) =>
                   \E r \in rowHist[call[t].job] :
                       call[t].result = <<JobDict(r)>>)
    /\ [][\A t \in Threads :
             (call[t].op = "update_job_status" /\ call[t].phase = "executed"
                 /\ call'[t].phase = "committed") =>
                \A j \in Jobs \ {call[t].job} :
                    /\ j \in DOMAIN db <=> j \in DOMAIN db'
                    /\ j \in DOMAIN db => db'[j] = db[j]]_vars

C10_Witness ==
    \E t, u \in Threads : \E j, k \in DOMAIN db :
        /\ j # k
        /\ call[t].op = "get_job" /\ call[t].phase = "executed"
        /\ call[t].job = j /\ call[t].result # <<>>
        /\ call[u].op = "update_job_status" /\ call[u].phase = "wait"
        /\ call[u].job = j
        /\ Len(writes[j]) >= 1

\* C11: an update_job_status call that carries an error leaves the row with
\* status "failed" and with that error stored, whatever status the same call
\* supplies.
C11_ErrorForcesFailed ==
    [][\A t \in Threads :
          (/\ call[t].op = "update_job_status"
           /\ call[t].phase = "executed" /\ call'[t].phase = "committed"
           /\ "error" \in DOMAIN call[t].args
           /\ call[t].job \in DOMAIN db) =>
             /\ call[t].job \in DOMAIN db'
             /\ db'[call[t].job].status = "failed"
             /\ db'[call[t].job].error = call[t].args.error]_vars

C11_Witness ==
    \E j \in DOMAIN db :
        /\ writes[j] # <<>>
        /\ LET w == writes[j][Len(writes[j])]
           IN /\ "error" \in DOMAIN w /\ "status" \in DOMAIN w
              /\ w.status = "complete"
              /\ db[j].status = "failed" /\ db[j].error = w.error

\* a is a prefix of b.
IsPrefix(a, b) == Len(a) <= Len(b) /\ SubSeq(b, 1, Len(a)) = a

\* C16: the runner's merged snapshot never loses an entry of documents or of
\* error_log: at every merge of a stage's delta (research_worker.py:81) the
\* lists before it are prefixes of the lists after it, and no other step
\* shortens them.
C16_ListsGrow ==
    [][\A j \in Jobs :
          /\ events'[j] # events[j] =>
                /\ IsPrefix(final_state[j].documents, final_state'[j].documents)
                /\ IsPrefix(final_state[j].error_log, final_state'[j].error_log)
          /\ Len(final_state'[j].documents) >= Len(final_state[j].documents)
          /\ Len(final_state'[j].error_log) >= Len(final_state[j].error_log)]_vars

C16_Witness ==
    /\ Len(events[OnlyJob]) = Len(StageOrder)
    /\ Len(final_state[OnlyJob].documents) >= 1
    /\ Len(final_state[OnlyJob].error_log) >= 1
    /\ final_state[OnlyJob].final_report # "None"

----------------------------------------------------------------------------
(* Properties of researcher_node                                           *)

\* The step of the try block that raises for a failing candidate.
FailingStep(outcome) ==
    CASE outcome = "download_fails" -> "download_pdf"
      [] outcome = "extract_fails" -> "extract_text"
      [] outcome = "citation_fails" -> "format_citation"

\* The collaborator calls made for candidate i, in order.
Attempted(i) == SelectSeq(researcher.ops, LAMBDA o : o.arxiv_id = i)

\* The error_log entries of a delta that name candidate i.
EntriesFor(delta, i) ==
    SelectSeq(delta.error_log, LAMBDA e : "arxiv_id" \in DOMAIN e /\ e.arxiv_id = i)

\* C12: for a non-empty candidate list the returned documents hold one record
\* per candidate, in candidate order; a candidate whose download, extraction
\* or citation step fails gets a record whose extraction_status starts with
\* "failed" and that has no text, plus one error_log entry with its arxiv_id
\* and stage "pdf_extraction"; the failing step is the last one attempted for
\* it, and the candidates after it are processed all the same.
C12_OneRecordPerCandidate ==
    (researcher.pc = "done" /\ Len(researcher.papers) > 0) =>
        LET delta == researcher.ret[1]
            papers == researcher.papers
        IN /\ Len(delta.documents) = Len(papers)
           /\ \A i \in 1..Len(papers) :
                 LET doc == delta.documents[i]
                     steps == Attempted(i)
                 IN /\ doc.arxiv_id = i
                    /\ steps # <<>>
                    /\ Succeeds(papers[i]) =>
                          /\ doc.extraction_status = "success"
                          /\ EntriesFor(delta, i) = <<>>
                    /\ ~Succeeds(papers[i]) =>
                          /\ StartsWith(doc.extraction_status, "failed")
                          /\ "text" \notin DOMAIN doc
                          /\ Len(EntriesFor(delta, i)) = 1
                          /\ EntriesFor(delta, i)[1].stage = "pdf_extraction"
                          /\ \A k \in 1..Len(steps) :
                                steps[k].op = FailingStep(papers[i]) <=> k = Len(steps)

C12_Witness ==
    /\ researcher.pc = "done"
    /\ \E i, j \in 1..Len(researcher.papers) :
          /\ i < j
          /\ researcher.papers[i] = "extract_fails"
          /\ Succeeds(researcher.papers[j])
          /\ researcher.ret[1].documents[j].extraction_status = "success"
          /\ Len(researcher.ret[1].documents[i].extraction_status) = 8 + 50

\* C13: every record carries one extraction_status, "success" or a value that
\* starts with "failed"; the index build is invoked exactly when some record
\* is "success", it receives only "success" records, and every chunk of the
\* built index comes from a "success" record.
C13_IndexFromSuccessOnly ==
    researcher.pc \in {"candidates", "return", "done"} =>
        LET docs == researcher.documents
            ok == {k \in 1..Len(docs) : docs[k].extraction_status = "success"}
            invoked == \E k \in 1..Len(researcher.ops) :
                          researcher.ops[k].op = "build_index"
        IN /\ \A k \in 1..Len(docs) :
                 (docs[k].extraction_status = "success")
                    # StartsWith(docs[k].extraction_status, "failed")
           /\ researcher.pc \in {"return", "done"} =>
                 /\ invoked <=> ok # {}
                 /\ \A k \in 1..Len(researcher.indexed) :
                       researcher.indexed[k].extraction_status = "success"
                 /\ invoked => Len(researcher.indexed) = Cardinality(ok)
                 /\ researcher.chunks \subseteq {docs[k].arxiv_id : k \in ok}

C13_Witness ==
    /\ researcher.pc = "done"
    /\ researcher.build = "built"
    /\ researcher.chunks # {}
    /\ \E k \in 1..Len(researcher.documents) :
          /\ researcher.documents[k].extraction_status # "success"
          /\ researcher.documents[k].arxiv_id \notin researcher.chunks

\* C14: when the index build raises, researcher_node still returns: the delta
\* holds every collected record, the per-document error entries followed by
\* exactly one entry with stage "faiss_building", faiss_index_path None and
\* processing_stage "analyzing".
C14_BuildFailureAbsorbed ==
    (researcher.pc # "search" /\ researcher.build = "raised") =>
        /\ researcher.pc \in {"return", "done"}
        /\ researcher.pc = "done" =>
              /\ researcher.ret # <<>>
              /\ LET delta == researcher.ret[1]
                     n == Len(delta.error_log)
                 IN /\ delta.documents = researcher.documents
                    /\ Len(delta.documents) = Len(researcher.papers)
                    /\ n >= 1
                    /\ delta.error_log[n].stage = "faiss_building"
                    /\ \A k \in 1..(n - 1) :
                          delta.error_log[k].stage = "pdf_extraction"
                    /\ n - 1 = Cardinality({i \in 1..Len(researcher.papers) :
                                               ~Succeeds(researcher.papers[i])})
                    /\ delta.faiss_index_path = "None"
                    /\ delta.processing_stage = "analyzing"

C14_Witness ==
    /\ researcher.pc = "done"
    /\ researcher.build = "raised"
    /\ researcher.ret # <<>>
    /\ Len(researcher.ret[1].error_log) >= 2
    /\ Len(researcher.ret[1].documents) = MaxCandidates

\* C15: when the search returns no candidate, the delta is documents = [],
\* an error_log of the single entry with stage "arxiv_search" and
\* processing_stage "failed", and no download, extraction or index build
\* has been attempted.
C15_NoCandidates ==
    (researcher.pc = "done" /\ Len(researcher.papers) = 0) =>
        /\ researcher.ret # <<>>
        /\ DOMAIN researcher.ret[1] = {"documents", "error_log", "processing_stage"}
        /\ researcher.ret[1].documents = <<>>
        /\ Len(researcher.ret[1].error_log) = 1
        /\ researcher.ret[1].error_log[1].stage = "arxiv_search"
        /\ researcher.ret[1].processing_stage = "failed"
        /\ \A k \in 1..Len(researcher.ops) :
              researcher.ops[k].op \notin
                 {"download_pdf", "extract_text", "format_citation", "build_index"}

C15_Witness ==
    /\ researcher.pc = "done"
    /\ researcher.papers = <<>>
    /\ researcher.ops = <<[op |-> "search", arxiv_id |-> 0]>>
    /\ researcher.ret # <<>>
    /\ researcher.ret[1].processing_stage = "failed"

----------------------------------------------------------------------------
(* Properties of _detect_contradictions                                    *)

\* The two documents of a comparison, or of a result record, as a set.
ComparedPair(c) == {c.first, c.second}
RecordPair(r) == {r.citation_1, r.citation_2}

\* C17: no LLM comparison is made for two chunks of one document, no
\* unordered pair of documents is compared more than once, contradictions
\* and complementary findings together hold at most one record per unordered
\* pair of documents and none for a single document, and a comparison
\* answered "unrelated" or "insufficient" leaves no record.
C17_OnePerSourcePair ==
    /\ [](detector.pc \in {"pairs", "done"} =>
            LET cmp == detector.compared
                recs == detector.contradictions \o detector.complementary_findings
            IN /\ \A k \in 1..Len(cmp) : cmp[k].first # cmp[k].second
               /\ \A k, l \in 1..Len(cmp) :
                     k # l => ComparedPair(cmp[k]) # ComparedPair(cmp[l])
               /\ \A k \in 1..Len(recs) : recs[k].citation_1 # recs[k].citation_2
               /\ \A k, l \in 1..Len(recs) :
                     k # l => RecordPair(recs[k]) # RecordPair(recs[l])
               /\ \A k \in 1..Len(recs) :
                     \E n \in 1..Len(cmp) : RecordPair(recs[k]) = ComparedPair(cmp[n]))
    /\ [][(/\ detector.pc = "pairs"
           /\ Len(detector'.compared) > Len(detector.compared)
           /\ detector'.response \in {{"UNRELATED"}, {"INSUFFICIENT"}}) =>
             /\ detector'.contradictions = detector.contradictions
             /\ detector'.complementary_findings =
                   detector.complementary_findings]_vars

C17_Witness ==
    /\ detector.pc = "done"
    /\ \E i, j, k, l \in 1..Len(detector.potential_conflicts) :
          /\ i < j /\ k < l /\ i < k
          /\ detector.potential_conflicts[i] = detector.potential_conflicts[l]
          /\ detector.potential_conflicts[j] = detector.potential_conflicts[k]
          /\ detector.potential_conflicts[i] # detector.potential_conflicts[j]
    /\ Len(detector.contradictions) = 1
    /\ Len(detector.complementary_findings) = 1
    /\ Len(detector.compared) = 3
    /\ detector.response = {"INSUFFICIENT"}

----------------------------------------------------------------------------
\* Properties of analyzer_node and comparator_node.

\* C18: an exception raised inside one of the five extraction procedures,
\* by an index query or by an LLM call, never leaves the procedure: the
\* analyzer never ends by raising it, and goes on to return its delta.
C18_ExceptionsAbsorbed ==
    analyzer.pc = "raised" =>
        \A f \in analyzer.faults : \A n \in 1..Len(Procedures) : f.by # Procedures[n]

NoIndex(state) == Get(state, "faiss_index_path", "None") = "None"

\* C19: on a state without faiss_index_path, analyzer_node returns an
\* analysis whose six collections are empty and comparator_node returns an
\* empty metrics_table and empty metric_names; neither loads or queries the
\* index or calls the LLM, and each returns the stage label "synthesizing".
C19_NoIndexShortCircuit ==
    /\ (analyzer.pc # "idle" /\ NoIndex(analyzer.state)) =>
          /\ analyzer.pc \in {"start", "done"}
          /\ analyzer.calls = {}
          /\ analyzer.pc = "done" =>
                /\ analyzer.ret # <<>>
                /\ DOMAIN analyzer.ret[1].analysis =
                      {"key_findings", "contradictions", "complementary_findings",
                       "trends", "consensus_points", "gaps"}
                /\ \A f \in DOMAIN analyzer.ret[1].analysis :
                      analyzer.ret[1].analysis[f] = <<>>
                /\ analyzer.ret[1].processing_stage = "synthesizing"
    /\ (comparator.pc # "idle" /\ NoIndex(comparator.state)) =>
          /\ comparator.pc \in {"start", "done"}
          /\ comparator.calls = {}
          /\ comparator.pc = "done" =>
                /\ comparator.ret # <<>>
                /\ comparator.ret[1].comparison.metrics_table = <<>>
                /\ comparator.ret[1].comparison.metric_names = <<>>
                /\ comparator.ret[1].processing_stage = "synthesizing"

C19_Witness ==
    /\ analyzer.pc = "done"
    /\ comparator.pc = "done"
    /\ "faiss_index_path" \notin DOMAIN analyzer.state
    /\ comparator.state = analyzer.state
    /\ analyzer.ret[1].analysis.gaps = <<>>
    /\ comparator.ret[1].comparison.metric_names = <<>>
    /\ analyzer.calls \cup comparator.calls = {}

\* v is s[lo..hi] without its leading and trailing blanks
Trimmed(s, lo, hi, v) ==
    \E a \in lo..(hi + 1) :
        LET b == a + Len(v) - 1
        IN /\ b <= hi
           /\ SubSeq(s, a, b) = v
           /\ \A k \in (lo..(a - 1)) \cup ((b + 1)..hi) : SubSeq(s, k, k) = " "
           /\ Len(v) > 0 => SubSeq(s, a, a) # " " /\ SubSeq(s, b, b) # " "

\* line reports the metric called name, with this value
Reports(line, name, value) ==
    \E c \in 1..Len(line) :
        /\ SubSeq(line, c, c) = ":"
        /\ \A k \in 1..(c - 1) : SubSeq(line, k, k) # ":"
        /\ Trimmed(line, 1, c - 1, name)
        /\ Trimmed(line, c + 1, Len(line), value)
ReportsName(line, name) ==
    \E c \in 1..Len(line) :
        /\ SubSeq(line, c, c) = ":"
        /\ \A k \in 1..(c - 1) : SubSeq(line, k, k) # ":"
        /\ Trimmed(line, 1, c - 1, name)

\* C20: in what _build_comparison_table returns, the keys of every row are
\* among metric_names and "paper"; metric_names is in ascending order without
\* a repetition and holds exactly the names (the text before the first
\* colon, without the blanks around it) of the metric lines of all
\* documents; there is one row for each document of the input, in its
\* order, and the row holds that document's metrics and no other.
C20_TableShape ==
    (comparator.pc = "done" /\ ~NoIndex(comparator.state)) =>
        LET paper_metrics == comparator.paper_metrics
            metrics_table == comparator.ret[1].comparison.metrics_table
            metric_names == comparator.ret[1].comparison.metric_names
            lines(n) == paper_metrics[n].metrics
        IN /\ \A n \in 1..Len(metrics_table) :
                 DOMAIN metrics_table[n] \subseteq
                    {metric_names[k] : k \in 1..Len(metric_names)} \cup {"paper"}
           /\ \A k \in 1..(Len(metric_names) - 1) :
                 StrLess(metric_names[k], metric_names[k + 1])
           /\ \A k \in 1..Len(metric_names) :
                 \E n \in 1..Len(paper_metrics) : \E m \in 1..Len(lines(n)) :
                    ReportsName(lines(n)[m], metric_names[k])
           /\ \A n \in 1..Len(paper_metrics) : \A m \in 1..Len(lines(n)) :
                 \E k \in 1..Len(metric_names) :
                    ReportsName(lines(n)[m], metric_names[k])
           /\ Len(metrics_table) = Len(paper_metrics)
           /\ \A n \in 1..Len(metrics_table) :
                 /\ "paper" \in DOMAIN metrics_table[n]
                 /\ \A key \in DOMAIN metrics_table[n] :
                       \/ key = "paper" /\ metrics_table[n][key] = paper_metrics[n].citation
                       \/ \E m \in 1..Len(lines(n)) :
                             Reports(lines(n)[m], key, metrics_table[n][key])
                 /\ \A m \in 1..Len(lines(n)) :
                       \E key \in DOMAIN metrics_table[n] :
                          ReportsName(lines(n)[m], key)

C20_Witness ==
    /\ comparator.pc = "done"
    /\ Len(comparator.paper_metrics) = 2
    /\ comparator.paper_metrics[1].metrics = <<"acc : 90%", "Time:3:05">>
    /\ comparator.paper_metrics[2].metrics = <<"acc: 91%">>
    /\ comparator.ret[1].comparison.metric_names = <<"Time", "acc">>
    /\ DOMAIN comparator.ret[1].comparison.metrics_table[1] = {"paper", "acc", "Time"}
    /\ DOMAIN comparator.ret[1].comparison.metrics_table[2] = {"paper", "acc"}
    /\ comparator.ret[1].comparison.metrics_table[1]["Time"] = "3:05"

----------------------------------------------------------------------------
\* The budget of _detect_contradictions.

\* C30: one run makes at most PairLimit - 1 LLM comparisons.  Every pair
\* that is judged has been recorded in seen_pairs first; from the pair that
\* brings seen_pairs to PairLimit on, pairs are recorded but not judged, so
\* the number of comparisons is the number of recorded pairs or
\* PairLimit - 1, whichever is smaller, and no call is made in a step that
\* starts or ends with PairLimit pairs recorded.
C30_ComparisonBudget ==
    /\ [](detector.pc \in {"pairs", "done"} =>
            LET seen == Cardinality(detector.seen_pairs)
            IN /\ Len(detector.compared) =
                     IF seen < PairLimit THEN seen ELSE PairLimit - 1
               /\ \A k \in 1..Len(detector.compared) :
                     pair_key(detector.compared[k].first, detector.compared[k].second) \in detector.seen_pairs)
    /\ [][(detector.pc = "pairs"
             /\ Len(detector'.compared) > Len(detector.compared)) =>
               /\ Cardinality(detector'.seen_pairs) < PairLimit
               /\ Cardinality(detector'.seen_pairs) =
                     Cardinality(detector.seen_pairs) + 1]_vars

C30_Witness ==
    /\ detector.pc = "done"
    /\ Cardinality(detector.seen_pairs) > PairLimit
    /\ Len(detector.compared) = PairLimit - 1
    /\ \E key \in detector.seen_pairs :
          \A k \in 1..Len(detector.compared) :
             pair_key(detector.compared[k].first, detector.compared[k].second) # key

----------------------------------------------------------------------------
\* Properties of a whole run.

\* The write sets a terminal status.
Terminal(args) ==
    "error" \in DOMAIN args \/ Get(args, "status", "None") \in {"complete", "failed"}
TerminalWrites(j) == {i \in 1..Len(writes[j]) : Terminal(writes[j][i])}

\* C24: a run makes at most one write that sets a terminal status, as its
\* last write and only after the stream has ended; when run_research_job
\* has returned it has made exactly one, and the row's status is "complete"
\* if that write carried no error and "failed" if it did.
C24_OneTerminalWrite ==
    \A j \in Jobs :
        /\ Cardinality(TerminalWrites(j)) <= 1
        /\ \A i \in TerminalWrites(j) : i = Len(writes[j])
        /\ TerminalWrites(j) # {} =>
              pc[j] \in {"completed", "incomplete", "raised"}
        /\ Finished(j) =>
              /\ Cardinality(TerminalWrites(j)) = 1
              /\ j \in DOMAIN db
              /\ db[j].status \in {"complete", "failed"}
              /\ db[j].status = "failed" <=>
                    "error" \in DOMAIN writes[j][Len(writes[j])]

C24_Witness ==
    /\ Finished(OnlyJob)
    /\ pc[OnlyJob] = "incomplete"
    /\ Len(writes[OnlyJob]) >= 3
    /\ db[OnlyJob].status = "failed"

\* status and processing_stage agree, or the status is "failed".
InStep(row) == row.status = row.processing_stage \/ row.status = "failed"

\* C25: every version of every row has status = processing_stage or status
\* "failed".  The row create_job inserts is "queued" in both columns with
\* progress 0; every write of the runner either sets both columns to one
\* value or carries an error and names neither column; a failed row holds
\* the processing_stage it held before the failure write.
C25_StatusFollowsStage ==
    \A j \in Jobs :
        /\ j \in DOMAIN db => InStep(db[j])
        /\ \A r \in rowHist[j] : InStep(r)
        /\ (j \in DOMAIN db /\ writes[j] = <<>>) =>
              /\ db[j].status = "queued" /\ db[j].processing_stage = "queued"
              /\ db[j].progress_percentage = 0
        /\ \A i \in 1..Len(writes[j]) :
              LET w == writes[j][i]
              IN IF "error" \in DOMAIN w
                 THEN "status" \notin DOMAIN w /\ "processing_stage" \notin DOMAIN w
                 ELSE /\ {"status", "processing_stage"} \subseteq DOMAIN w
                      /\ w.status = w.processing_stage
        /\ (j \in DOMAIN db /\ db[j].status = "failed") =>
              LET before == ApplyWrites(NewRow(db[j].created_at),
                                        SubSeq(writes[j], 1, Len(writes[j]) - 1))
              IN /\ writes[j] # <<>>
                 /\ before.status # "failed"
                 /\ db[j].processing_stage = before.processing_stage
                 /\ db[j].processing_stage = before.status

C25_Witness ==
    /\ OnlyJob \in DOMAIN db
    /\ db[OnlyJob].status = "failed"
    /\ db[OnlyJob].processing_stage = "synthesizing"
    /\ \E r \in rowHist[OnlyJob] : r.status = "queued"
    /\ \E r \in rowHist[OnlyJob] : r.status = "synthesizing"

----------------------------------------------------------------------------
\* The frame of update_job_status.

\* The column an argument of update_job_status is stored in.
ColumnOf(arg) == IF arg = "final_state" THEN "final_state_json" ELSE arg

\* The value the update stores in a column it names.
StoredValue(args, arg) ==
    IF arg = "final_state" THEN JsonDumps(args.final_state)
    ELSE IF arg = "status" /\ "error" \in DOMAIN args THEN "failed"
    ELSE args[arg]

\* C26: the commit of update_job_status changes no row but the one with the
\* given job_id and creates none.  In that row each column whose argument
\* was given holds the argument's value, status holds "failed" when an
\* error was given, updated_at is later than before, and every other
\* column is as it was; so a write that gives error and progress only
\* leaves processing_stage, current_message and final_state_json alone.
C26_UpdateFrame ==
    [][\A t \in Threads :
          (call[t].op = "update_job_status" /\ call[t].phase = "executed"
              /\ call'[t].phase = "committed") =>
             LET j == call[t].job
                 args == call[t].args
                 named == {ColumnOf(a) : a \in DOMAIN args}
                             \cup (IF "error" \in DOMAIN args THEN {"status"} ELSE {})
             IN /\ DOMAIN db' = DOMAIN db
                /\ \A k \in (DOMAIN db) \ {j} : db'[k] = db[k]
                /\ j \in DOMAIN db =>
                      /\ DOMAIN db'[j] = DOMAIN db[j]
                      /\ \A a \in DOMAIN args :
                            db'[j][ColumnOf(a)] = StoredValue(args, a)
                      /\ "error" \in DOMAIN args => db'[j].status = "failed"
                      /\ db'[j].updated_at > db[j].updated_at
                      /\ \A col \in (DOMAIN db[j]) \ (named \cup {"updated_at"}) :
                            db'[j][col] = db[j][col]
                      /\ DOMAIN args = {"error", "progress_percentage"} =>
                            /\ db'[j].processing_stage = db[j].processing_stage
                            /\ db'[j].current_message = db[j].current_message
                            /\ db'[j].final_state_json = db[j].final_state_json]_vars

\* A failure write has been committed on a row that held a final snapshot.
C26_Witness ==
    \E j \in DOMAIN db :
        /\ Len(writes[j]) = 2
        /\ "final_state" \in DOMAIN writes[j][1]
        /\ DOMAIN writes[j][2] = {"error", "progress_percentage"}
        /\ db[j].status = "failed"
        /\ db[j].processing_stage = "complete"
        /\ db[j].final_state_json # <<>>
        /\ db[j].updated_at = db[j].created_at + 2
        /\ \E k \in (DOMAIN db) \ {j} : writes[k] = <<>>

----------------------------------------------------------------------------
\* Removal of a row during its job's run.

\* The row of job j was created and has been removed.
Removed(j) == pc[j] # "idle" /\ j \notin DOMAIN db

\* A step the runner of job j can take, in run_research_job or in the
\* JobStore method it is calling.
RunnerCanStep(j) ==
    ENABLED (StartRun(j) \/ StreamYield(j) \/ StreamRaise(j) \/ Validate(j)
                \/ Acquire(j) \/ Execute(j) \/ Commit(j) \/ Release(j))

\* C27: a removed row never comes back, whatever the runner writes
\* afterwards: the commit of an update for a missing row changes no row;
\* get_job finds nothing for the removed job; the runner is never stuck (it
\* can step, or waits for a lock that another thread holds inside a method)
\* and, once returned, has walked the stream to its end or to a raising
\* node exactly as with the row in place.  The statement that removes a
\* row changes no row that it does not select.
C27_RemovedStaysRemoved ==
    /\ [](\A j \in Jobs :
            /\ \A t \in Threads :
                  (Removed(j) /\ call[t].op = "get_job" /\ call[t].job = j
                      /\ call[t].phase = "executed") => call[t].result = <<>>
            /\ (Removed(j) /\ j = OnlyJob /\ ~Finished(j)) =>
                  RunnerCanStep(j) \/ (lock \notin {"free", j} /\ InStore(lock))
            /\ (Removed(j) /\ Finished(j)) =>
                  /\ pc[j] \in {"completed", "incomplete"} =>
                        events[j] = StageOrder
                  /\ pc[j] = "raised" => Len(events[j]) < Len(StageOrder))
    /\ [][\A j \in Jobs :
             /\ Removed(j) => j \notin DOMAIN db'
             /\ (call[j].op = "update_job_status" /\ call[j].phase = "executed"
                    /\ call'[j].phase = "committed" /\ Removed(j)) =>
                   db' = db /\ writes' = writes
             /\ (call[ApiThread].op \in {"delete_job", "cleanup_old_jobs"}
                    /\ call[ApiThread].phase = "executed"
                    /\ call'[ApiThread].phase = "committed"
                    /\ j \in DOMAIN db) =>
                   IF j \in call[ApiThread].txn.del
                   THEN j \notin DOMAIN db'
                   ELSE j \in DOMAIN db' /\ db'[j] = db[j]]_vars

\* The row was removed after the run's second write and the run went on to
\* its complete write, which found no row; the other job's row is there.
C27_Witness ==
    /\ Removed(OnlyJob)
    /\ Finished(OnlyJob)
    /\ pc[OnlyJob] = "completed"
    /\ Len(writes[OnlyJob]) = 2
    /\ \E k \in DOMAIN db : k # OnlyJob /\ db[k].status = "queued"

----------------------------------------------------------------------------
(* The command-line client and the run it watches                          *)

CliStopped == cli.pc \in {"fetch", "exit"}

\* C23: the command-line client sends at most max_polls (600) status
\* requests; it leaves the loop on the ceiling only after that many, and
\* before it only because the status read was "complete" or "failed", or on
\* an interrupt or a failed request; the step that leaves the loop changes
\* no row, no write of the run and no position of the run; and with the
\* client gone the run is never stuck: it can step, or waits for a lock
\* another thread holds inside a JobStore method.
C23_CliPollCeiling ==
    /\ [](/\ cli.polls <= max_polls
          /\ cli.poll_count <= cli.polls
          /\ cli.exit = "timeout" => cli.polls = max_polls
          /\ (CliStopped /\ cli.polls < max_polls) =>
                cli.exit \in {"complete", "failed", "interrupt",
                              "request_error", "submit_error"}
          /\ cli.exit \in {"complete", "failed"} =>
                /\ OnlyJob \in DOMAIN db
                /\ db[OnlyJob].status = cli.exit
          /\ (CliStopped /\ OnlyJob \in DOMAIN db /\ ~Finished(OnlyJob)) =>
                RunnerCanStep(OnlyJob)
                    \/ (lock \notin {"free", OnlyJob} /\ InStore(lock)))
    /\ [][(~CliStopped /\ CliStopped') =>
             /\ db' = db
             /\ writes' = writes
             /\ pc' = pc
             /\ node' = node
             /\ events' = events
             /\ gstate' = gstate
             /\ call'[OnlyJob] = call[OnlyJob]]_vars

\* The client gave up after 600 polls, none of which read a terminal
\* status, and the run went on to its complete write.
C23_Witness ==
    /\ cli.exit = "timeout"
    /\ cli.polls = max_polls
    /\ Finished(OnlyJob)
    /\ OnlyJob \in DOMAIN db
    /\ db[OnlyJob].status = "complete"

----------------------------------------------------------------------------
(* The Streamlit client and the run it watches                             *)

RowFailed == OnlyJob \in DOMAIN db /\ db[OnlyJob].status = "failed"
RowTerminal ==
    OnlyJob \in DOMAIN db /\ db[OnlyJob].status \in {"complete", "failed"}

\* C28: once the row's status is "failed", the Streamlit client that polls
\* the job comes to stop polling (polling_active is false) with the error
\* shown, or with the error of a failed status request, whatever stage the
\* row holds.
C28_FailureShown ==
    (RowFailed /\ ui.polling_active)
        ~> (~ui.polling_active /\ ui.shown \in {"error", "poll_error"})

\* C29: a polling Streamlit client comes to stop polling or the row comes
\* to a terminal status: the client does not poll a row without end while
\* that row stays short of a terminal status.
C29_UiGivesUp ==
    ui.polling_active ~> (~ui.polling_active \/ RowTerminal)

----------------------------------------------------------------------------
(* The collection of _extract_key_findings                                 *)

\* The chunks of document d that the query of this step brings in.
Collected(d) ==
    {n \in Len(collector.substantive_chunks) + 1
              .. Len(collector'.substantive_chunks) :
        collector'.substantive_chunks[n].arxiv_id = d}

\* C22: every collected chunk has at least 200 characters; no query brings
\* in more than 3 chunks of one document; no two collected chunks have the
\* same first 100 characters; no query is run with 20 chunks held and never
\* more than 20 are held; there is one llm.invoke call for each of the
\* first 10 collected chunks and no other; at most 10 findings are
\* returned, each with the citation of the chunk it came from.
C22_CollectionBounds ==
    /\ [](collector.pc # "idle" =>
            LET chunks == collector.substantive_chunks
            IN /\ \A n \in 1..Len(chunks) : chunks[n].text.len >= 200
               /\ \A m, n \in 1..Len(chunks) :
                     m # n => chunks[m].text.head # chunks[n].text.head
               /\ Len(chunks) <= 20
               /\ collector.pc = "query" => Len(chunks) < 20
               /\ collector.calls <= 10
               /\ collector.calls = collector.n - 1
               /\ collector.pc = "done" =>
                     /\ collector.calls = Len(Prefix(chunks, 10))
                     /\ Len(collector.ret[1]) <= 10
                     /\ \A f \in 1..Len(collector.ret[1]) :
                           LET finding == collector.ret[1][f]
                           IN /\ finding.chunk \in 1..10
                              /\ finding.citation = chunks[finding.chunk].citation
                              /\ finding.citation = CitationOf(finding.arxiv_id))
    /\ [][collector.pc = "query" =>
             /\ \A d \in 1..MaxDocs : Cardinality(Collected(d)) <= 3
             /\ SubSeq(collector'.substantive_chunks, 1,
                       Len(collector.substantive_chunks))
                    = collector.substantive_chunks]_vars

\* Twenty chunks were collected, the last query leaving chunks of its
\* results unread, and each of the first ten gave a finding.
C22_Witness ==
    /\ collector.pc = "done"
    /\ Len(collector.substantive_chunks) = 20
    /\ collector.calls = 10
    /\ Len(collector.ret[1]) = 10
    /\ collector.q > 1

----------------------------------------------------------------------------
(* The collection of _extract_metrics_by_paper                             *)

Successful(d) == Get(d, "extraction_status", "None") = "success"

\* The documents of the activation with a given arxiv_id or citation.
DocsWithId(arxiv_id) ==
    {n \in 1..Len(extractor.documents) : extractor.documents[n].arxiv_id = arxiv_id}
Entries(citation) ==
    {n \in 1..Len(extractor.paper_metrics) :
        extractor.paper_metrics[n].citation = citation}

\* C21: only documents whose extraction_status is "success" are gone
\* through; the chunks held for a document are chunks of that document, at
\* most 5 of them; at most 3 llm.invoke calls are made for a document; an
\* entry of paper_metrics holds lines without repetition; and on return a
\* document has an entry exactly if it was successful and a metric line was
\* parsed for it, the entry holding the lines parsed for it.
C21_MetricsByPaper ==
    extractor.pc # "idle" =>
        /\ extractor.pc \in {"query", "llm"} =>
              /\ Successful(Paper)
              /\ \A n \in 1..Len(extractor.paper_chunks) :
                    extractor.paper_chunks[n].metadata.arxiv_id = Paper.arxiv_id
        /\ Len(extractor.paper_chunks) <= 5
        /\ extractor.calls <= 3
        /\ extractor.calls <= Len(extractor.paper_chunks)
        /\ \A n \in 1..Len(extractor.parsed) :
              \A d \in DocsWithId(extractor.parsed[n].arxiv_id) :
                 Successful(extractor.documents[d])
        /\ \A n \in 1..Len(extractor.paper_metrics) :
              LET metrics == extractor.paper_metrics[n].metrics
              IN /\ metrics # <<>>
                 /\ \A k, l \in 1..Len(metrics) : k # l => metrics[k] # metrics[l]
        /\ extractor.pc = "done" =>
              \A d \in 1..Len(extractor.documents) :
                 LET doc == extractor.documents[d]
                     lines == UNION {extractor.parsed[n].lines :
                                       n \in {m \in 1..Len(extractor.parsed) :
                                                 extractor.parsed[m].arxiv_id = doc.arxiv_id}}
                 IN /\ Successful(doc) =>
                          \E n \in 1..Len(extractor.parsed) :
                             extractor.parsed[n].arxiv_id = doc.arxiv_id
                    /\ Entries(doc.citation) # {} <=> (Successful(doc) /\ lines # {})
                    /\ Cardinality(Entries(doc.citation)) <= 1
                    /\ \A n \in Entries(doc.citation) :
                          {extractor.ret[1][n].metrics[k] :
                              k \in 1..Len(extractor.ret[1][n].metrics)} = lines

\* Of two documents one had failed; for the other 5 chunks were held, 3
\* calls made, a line parsed more than once, and its entry holds two lines.
C21_Witness ==
    /\ extractor.pc = "done"
    /\ Len(extractor.documents) = 2
    /\ \E d \in 1..2 : ~Successful(extractor.documents[d])
    /\ Len(extractor.paper_chunks) = 5
    /\ extractor.calls = 3
    /\ Len(extractor.metrics) > 2
    /\ Len(extractor.ret[1]) = 1
    /\ Len(extractor.ret[1][1].metrics) = 2

====
